---- MODULE Spec2Model ----
(***************************************************************************)
(* Host-authoritative UNO-style card game (carteado).                      *)
(*                                                                         *)
(* The model follows src/App.tsx (the peer-to-peer host) and               *)
(* src/services/gameLogic.ts.  The match state lives in React state:       *)
(* setGameState(...) only queues an update, the queue is applied at the    *)
(* next render, and stateRef.current is refreshed by that render           *)
(* (src/App.tsx:78-79).  The model therefore keeps two copies of the       *)
(* match state: gameState, the last rendered state (what stateRef.current  *)
(* and every closure read), and pendingState, gameState with the queued    *)
(* updates applied (what the next render commits).                         *)
(***************************************************************************)
EXTENDS Integers, Sequences, FiniteSets, TLC

(* ------------------------------ bounds --------------------------------- *)
\* The deck is built the way createDeck builds it, from fewer cards.
NumColors == 2
NumeralMax == 1
Copies == 1
WildCopies == 1
\* Cards dealt to each seat (7 in the code).
HandSize == 2
\* Cap on turnCount, which the code never bounds.
MaxTurns == 5
\* Remote human peers that may join the room.
MaxClients == 1
\* PLAYER_ACTION packets the host handles before React renders.
MaxBatch == 2
\* Snapshots the channel holds in flight.
MaxInFlight == 2

(* ----------------------------- constants ------------------------------- *)
COLORS == <<"red", "blue", "green", "yellow">>
ActionTypes == <<"skip", "reverse", "draw2">>
DeckColors == SubSeq(COLORS, 1, NumColors)
Chromatic == {"red", "blue", "green", "yellow"}
NoColor == "undefined"
\* The colors a wild is played with in the model: the first and the last button
WildChoices == {COLORS[1], COLORS[Len(COLORS)]}
NoValue == -1

LOBBY == "LOBBY"
PLAYING == "PLAYING"
GAME_OVER == "GAME_OVER"

(* ------------------------- sequence helpers ---------------------------- *)
Range(s) == {s[i] : i \in 1..Len(s)}

Min(a, b) == IF a < b THEN a ELSE b

Max(a, b) == IF a > b THEN a ELSE b

\* s.splice(0, n): the removed prefix and what is left
Prefix(s, n) == SubSeq(s, 1, Min(n, Len(s)))

Drop(s, n) == SubSeq(s, Min(n, Len(s)) + 1, Len(s))

RECURSIVE Flatten(_)
Flatten(ss) == IF ss = <<>> THEN <<>> ELSE Head(ss) \o Flatten(Tail(ss))

Repeat(x, n) == [i \in 1..n |-> x]

(* ------------------------------- deck ---------------------------------- *)
\* addCard without the id, which createDeck numbers in push order
Face(color, type, value) == [color |-> color, type |-> type, value |-> value]

ColorFaces(color) ==
    <<Face(color, "number", 0)>>
    \o Flatten([i \in 1..NumeralMax |-> Repeat(Face(color, "number", i), Copies)])
    \o Flatten([a \in 1..Len(ActionTypes) |-> Repeat(Face(color, ActionTypes[a], NoValue), Copies)])

WildFaces ==
    Flatten([i \in 1..WildCopies |->
        <<Face("black", "wild", NoValue), Face("black", "wild4", NoValue)>>])

\* The deck in construction order; a card's id is its position (card-0, card-1, ...)
Faces == Flatten([c \in 1..Len(DeckColors) |-> ColorFaces(DeckColors[c])]) \o WildFaces

DeckSize == Len(Faces)

CardIds == 0..(DeckSize - 1)

Card(id) == Faces[id + 1]

OrderedDeck == [i \in 1..DeckSize |-> i - 1]

\* shuffleDeck returns some permutation of its argument.  The model draws it
\* from a family of permutations: the mirror of the argument and its rotations.
Rotate(s, k) == [i \in 1..Len(s) |-> s[((i - 1 + k) % Len(s)) + 1]]

Mirror(s) == [i \in 1..Len(s) |-> s[Len(s) + 1 - i]]

shuffleDeck(s) ==
    IF Len(s) <= 1 THEN {s}
    ELSE {Rotate(s, k) : k \in 0..(Len(s) - 1)} \cup {Mirror(s)}

createDeck == shuffleDeck(OrderedDeck)

(* ---------------------------- rule engine ------------------------------ *)
\* isCardValid without the match of action symbols
isCardValidNoSymbol(card, topCard, activeColor) ==
    \/ card.color = "black"
    \/ card.color = activeColor
    \/ card.type = "number" /\ topCard.type = "number" /\ card.value = topCard.value

isCardValid(card, topCard, activeColor) ==
    \/ card.color = "black"
    \/ card.color = activeColor
    \/ card.type = "number" /\ topCard.type = "number" /\ card.value = topCard.value
    \/ card.type # "number" /\ card.type = topCard.type

(* ---------------------------- bot strategy ----------------------------- *)
NoCard == -1

\* findBestMove that plays the first legal card of the hand
findBestMoveFirstLegal(hand, topCard, activeColor) ==
    LET IsValid(c) == isCardValid(Card(c), topCard, activeColor)
        validCards == SelectSeq(hand, IsValid)
    IN  IF validCards = <<>> THEN NoCard ELSE validCards[1]

findBestMove(hand, topCard, activeColor) ==
    LET IsValid(c) == isCardValid(Card(c), topCard, activeColor)
        validCards == SelectSeq(hand, IsValid)
        IsAction(c) == Card(c).type \in {"draw2", "skip", "reverse"}
        actions == SelectSeq(validCards, IsAction)
        IsColored(c) == Card(c).color # "black"
        numbers == SelectSeq(validCards, IsColored)
    IN  IF validCards = <<>> THEN NoCard
        ELSE IF actions # <<>> THEN actions[1]
        ELSE IF numbers # <<>> THEN numbers[1]
        ELSE validCards[1]

CountColor(hand, color) == Cardinality({i \in 1..Len(hand) : Card(hand[i]).color = color})

RECURSIVE ReduceMax(_, _, _)
ReduceMax(hand, a, rest) ==
    IF rest = <<>> THEN a
    ELSE ReduceMax(hand,
                   IF CountColor(hand, a) > CountColor(hand, Head(rest)) THEN a ELSE Head(rest),
                   Tail(rest))

\* pickBestColor whose reduce keeps the earlier color on a tie
pickBestColorKeepsFirst(hand) ==
    LET better(a, b) == IF CountColor(hand, a) >= CountColor(hand, b) THEN a ELSE b
    IN  better(better(better(COLORS[1], COLORS[2]), COLORS[3]), COLORS[4])

\* Object.keys(counts).reduce((a, b) => counts[a] > counts[b] ? a : b)
pickBestColor(hand) == ReduceMax(hand, COLORS[1], Tail(COLORS))

(* ------------------------------- state --------------------------------- *)
VARIABLES
    gameState,       \* the rendered match state; stateRef.current
    pendingState,    \* gameState with the queued setGameState updates applied
    connectedPeers,  \* remote peers of the room, in join order (host entry left out)
    botTimeoutRef,   \* the armed 100 ms timer with the processBotTurn closure, or <<>>
    botProcs,        \* processBotTurn / performPlayCard calls suspended at an await
    net,             \* GAME_STATE snapshots in flight to the client
    replica,         \* the match state of a CLIENT peer
    room,            \* polling variant: what the relay stores under room:<code>
    updates,         \* polling variant: UPDATE_STATE requests of the host in flight
    sends,           \* polling variant: SEND_ACTION requests in flight or in the handler
    polled,          \* polling variant: the answer to the host's GET, not yet processed
    sendCount,       \* polling variant: the SEND_ACTION requests made so far
    ledger,          \* polling variant: the actions sent, and those the host processed
    engine           \* the last call of a function of gameLogic.ts: arguments and result

\* The state of the relay and of the requests to it
relayVars == <<room, updates, sends, polled, sendCount, ledger>>

vars == <<gameState, pendingState, connectedPeers, botTimeoutRef, botProcs, net, replica,
          room, updates, sends, polled, sendCount, ledger, engine>>

\* No function of gameLogic.ts has been called on its own
NoCall == [fn |-> "none", hand |-> <<>>, card |-> -1, topCard |-> -1,
           activeColor |-> "undefined", result |-> <<>>]

\* kv.get(key) of a room that does not exist; no answer to a GET
NoRoom == [status |-> "NOT_FOUND"]
NoData == [status |-> "NONE"]

HostId == <<"host", 0>>
ClientId(i) == <<"client", i>>
BotId(i) == <<"bot", i>>
UnknownId == <<"nobody", 0>>

NoPlayer == [id |-> <<"null", 0>>, isBot |-> FALSE, hand |-> <<>>, isUno |-> FALSE, isHost |-> FALSE]

NewPlayer(id, isBot, hand, isHost) ==
    [id |-> id, isBot |-> isBot, hand |-> hand, isUno |-> FALSE, isHost |-> isHost]

\* useState<GameState>({...}), also the state resetGame builds
LobbyState ==
    [status |-> LOBBY, players |-> <<>>, currentPlayerIndex |-> 0, direction |-> 1,
     drawPile |-> <<>>, discardPile |-> <<>>, currentColor |-> "red",
     winner |-> NoPlayer, turnCount |-> 0]

(* ------------------------- state updaters ------------------------------ *)
\* x % 0 is NaN in JavaScript
NaN == -1

\* getNextPlayerIndex without the wrap-around
getNextPlayerIndexNoWrap(current, direction, numPlayers) == current + direction

getNextPlayerIndex(current, direction, numPlayers) ==
    IF numPlayers = 0 \/ current = NaN THEN NaN
    ELSE (current + direction + numPlayers) % numPlayers

\* performDraw with a reclaim that takes the whole discard pile, top included
performDrawWholePile(prev, playerIndex, count) ==
    IF Len(prev.drawPile) < count /\ prev.discardPile = <<>> THEN {prev}
    ELSE LET reclaim == Len(prev.drawPile) < count
         IN  { LET newDrawPile == IF reclaim THEN recycled \o prev.drawPile ELSE prev.drawPile
                   drawn == Prefix(newDrawPile, count)
               IN  [prev EXCEPT !.drawPile = Drop(newDrawPile, count),
                                !.discardPile = IF reclaim THEN <<>> ELSE @,
                                !.players[playerIndex + 1].hand = @ \o drawn,
                                !.players[playerIndex + 1].isUno = FALSE]
               : recycled \in (IF reclaim THEN shuffleDeck(prev.discardPile) ELSE {<<>>}) }

\* performDraw that never reclaims the discard pile
performDrawNoReclaim(prev, playerIndex, count) ==
    {[prev EXCEPT !.drawPile = Drop(@, count),
                  !.players[playerIndex + 1].hand = @ \o Prefix(prev.drawPile, count),
                  !.players[playerIndex + 1].isUno = FALSE]}

\* The updater performDraw queues; the reshuffle makes it a set of results.
performDraw(prev, playerIndex, count) ==
    IF Len(prev.drawPile) < count /\ prev.discardPile = <<>> THEN {prev}
    ELSE LET reclaim == Len(prev.drawPile) < count
             discardTop == prev.discardPile[Len(prev.discardPile)]
             below == SubSeq(prev.discardPile, 1, Len(prev.discardPile) - 1)
         IN  { LET newDrawPile == IF reclaim THEN recycled \o prev.drawPile ELSE prev.drawPile
                   newDiscardPile == IF reclaim THEN <<discardTop>> ELSE prev.discardPile
                   drawn == Prefix(newDrawPile, count)
               IN  [prev EXCEPT !.drawPile = Drop(newDrawPile, count),
                                !.discardPile = newDiscardPile,
                                !.players[playerIndex + 1].hand = @ \o drawn,
                                !.players[playerIndex + 1].isUno = FALSE]
               : recycled \in (IF reclaim THEN shuffleDeck(below) ELSE {<<>>}) }

\* passTurn that leaves the turn with the drawer
passTurnReplay(prev, currentIndex) ==
    [prev EXCEPT !.currentPlayerIndex = currentIndex, !.turnCount = @ + 1]

\* passTurn that does not count the turn
passTurnUncounted(prev, currentIndex) ==
    [prev EXCEPT !.currentPlayerIndex =
                     getNextPlayerIndex(currentIndex, prev.direction, Len(prev.players))]

passTurn(prev, currentIndex) ==
    [prev EXCEPT !.currentPlayerIndex =
                     getNextPlayerIndex(currentIndex, prev.direction, Len(prev.players)),
                 !.turnCount = @ + 1]

\* performPlayCard, first updater: card out of the hand, onto the discard pile
PlayUpdater(prev, playerIndex, cardId, colorToSet) ==
    LET Other(c) == c # cardId
    IN  [prev EXCEPT !.players[playerIndex + 1].hand = SelectSeq(@, Other),
                     !.discardPile = Append(@, cardId),
                     !.currentColor = colorToSet]

\* performPlayCard's last updater without the second step of a skip
AdvanceUpdaterOneStep(prev, playerIndex, nextDirection, skipTurn) ==
    [prev EXCEPT !.currentPlayerIndex =
                     getNextPlayerIndex(playerIndex, nextDirection, Len(prev.players)),
                 !.turnCount = @ + 1]

\* performPlayCard's last updater taking the second step after every card
AdvanceUpdaterAlwaysSkips(prev, playerIndex, nextDirection, skipTurn) ==
    LET n == Len(prev.players)
    IN  [prev EXCEPT !.currentPlayerIndex =
                         getNextPlayerIndex(getNextPlayerIndex(playerIndex, nextDirection, n),
                                            nextDirection, n),
                     !.turnCount = @ + 1]

\* performPlayCard, last updater: the turn moves on
AdvanceUpdater(prev, playerIndex, nextDirection, skipTurn) ==
    LET n == Len(prev.players)
        nextIndex == getNextPlayerIndex(playerIndex, nextDirection, n)
    IN  [prev EXCEPT !.currentPlayerIndex =
                         IF skipTurn THEN getNextPlayerIndex(nextIndex, nextDirection, n)
                         ELSE nextIndex,
                     !.turnCount = @ + 1]

\* winState without the winner
WinStateNoWinner(ref, player) == [ref EXCEPT !.status = GAME_OVER]

\* performPlayCard: const winState = { ...stateRef.current, status: GAME_OVER, winner }
WinState(ref, player) ==
    [ref EXCEPT !.status = GAME_OVER, !.winner = [player EXCEPT !.hand = <<>>]]

ColorToSet(card, selectedWildColor) ==
    IF card.color = "black" /\ selectedWildColor # NoColor THEN selectedWildColor
    ELSE card.color

NoCont == [playerIndex |-> -1, nextDirection |-> 1, skipTurn |-> FALSE]

\* performPlayCard run up to its first await (or to its end).  ref is
\* stateRef.current, pend the queued state.  Each result names the new queued
\* state and, when the call is suspended in generateBotChat before its last
\* updater, what that updater still needs.
performPlayCard(ref, pend, playerIndex, cardId, selectedWildColor) ==
    LET card == Card(cardId)
        p1 == PlayUpdater(pend, playerIndex, cardId, ColorToSet(card, selectedWildColor))
        player == ref.players[playerIndex + 1]
        nextDirection == IF card.type = "reverse" THEN (ref.direction * (-1)) ELSE ref.direction
        skipTurn == \/ card.type = "reverse" /\ Len(ref.players) = 2
                    \/ card.type \in {"skip", "draw2", "wild4"}
        p2 == IF card.type = "reverse" THEN [p1 EXCEPT !.direction = nextDirection] ELSE p1
        victim == getNextPlayerIndex(playerIndex, nextDirection, Len(ref.players))
        p3s == IF card.type = "draw2" THEN performDraw(p2, victim, 2)
               ELSE IF card.type = "wild4" THEN performDraw(p2, victim, 4)
               ELSE {p2}
        awaits == player.isBot /\ card.type \in {"skip", "wild4"}
    IN  IF Len(player.hand) = 1
        THEN {[pend |-> WinState(ref, player), cont |-> NoCont]}
        ELSE {IF awaits
              THEN [pend |-> p3,
                    cont |-> [playerIndex |-> playerIndex, nextDirection |-> nextDirection,
                              skipTurn |-> skipTurn]]
              ELSE [pend |-> AdvanceUpdater(p3, playerIndex, nextDirection, skipTurn),
                    cont |-> NoCont]
              : p3 \in p3s}

\* players.findIndex(p => p.id === id), 0-based, -1 when absent
FindIndex(players, id) ==
    IF \E i \in 1..Len(players) : players[i].id = id
    THEN (CHOOSE i \in 1..Len(players) :
              players[i].id = id /\ \A j \in 1..(i - 1) : players[j].id # id) - 1
    ELSE -1

PlayerAction(playerId, actionType, cardId, wildColor) ==
    [playerId |-> playerId, actionType |-> actionType, cardId |-> cardId, wildColor |-> wildColor]

\* handleRemoteAction: the queued state it can leave behind, and the suspended
\* rest of performPlayCard if there is one
handleRemoteAction(ref, pend, action) ==
    LET playerIdx == FindIndex(ref.players, action.playerId)
        unchanged == {[pend |-> pend, cont |-> NoCont]}
    IN  IF playerIdx = -1 THEN unchanged
        ELSE IF playerIdx # ref.currentPlayerIndex THEN unchanged
        ELSE IF action.actionType = "DRAW_CARD"
             THEN {[pend |-> passTurn(d, playerIdx), cont |-> NoCont]
                   : d \in performDraw(pend, playerIdx, 1)}
        ELSE IF action.actionType = "PLAY_CARD" /\ action.cardId # NoCard
             THEN IF action.cardId \in Range(ref.players[playerIdx + 1].hand)
                  THEN performPlayCard(ref, pend, playerIdx, action.cardId, action.wildColor)
                  ELSE unchanged
        ELSE unchanged

(* --------------------------- match start ------------------------------- *)
Modes == {"1v1", "1v3", "1v4"}

TotalSlots(mode) == IF mode = "1v1" THEN 2 ELSE IF mode = "1v4" THEN 5 ELSE 4

\* deck.splice(0, 7) for seat number seat (0-based)
Dealt(deck, seat) == SubSeq(deck, Min(seat * HandSize, Len(deck)) + 1,
                            Min((seat + 1) * HandSize, Len(deck)))

\* startGameHost that leaves the flipped card in the draw pile as well
StartStateKeepsFlipped(mode, deck, peers) ==
    LET humans == 1 + Len(peers)
        neededBots == Max(0, TotalSlots(mode) - humans)
        players == [s \in 1..(humans + neededBots) |->
                       IF s = 1 THEN NewPlayer(HostId, FALSE, Dealt(deck, 0), TRUE)
                       ELSE IF s <= humans
                            THEN NewPlayer(peers[s - 1], FALSE, Dealt(deck, s - 1), FALSE)
                       ELSE NewPlayer(BotId(s - humans - 1), TRUE, Dealt(deck, s - 1), FALSE)]
        rest == Drop(deck, (humans + neededBots) * HandSize)
    IN  [status |-> PLAYING, players |-> players, currentPlayerIndex |-> 0, direction |-> 1,
         drawPile |-> rest, discardPile |-> <<Head(rest)>>, currentColor |-> "red",
         winner |-> NoPlayer, turnCount |-> 1]

\* startGameHost that takes the flipped card's color as it is
StartStateNeutralColor(mode, deck, peers) ==
    LET humans == 1 + Len(peers)
        neededBots == Max(0, TotalSlots(mode) - humans)
        players == [s \in 1..(humans + neededBots) |->
                       IF s = 1 THEN NewPlayer(HostId, FALSE, Dealt(deck, 0), TRUE)
                       ELSE IF s <= humans
                            THEN NewPlayer(peers[s - 1], FALSE, Dealt(deck, s - 1), FALSE)
                       ELSE NewPlayer(BotId(s - humans - 1), TRUE, Dealt(deck, s - 1), FALSE)]
        rest == Drop(deck, (humans + neededBots) * HandSize)
    IN  [status |-> PLAYING, players |-> players, currentPlayerIndex |-> 0, direction |-> 1,
         drawPile |-> Tail(rest), discardPile |-> <<Head(rest)>>,
         currentColor |-> Card(Head(rest)).color,
         winner |-> NoPlayer, turnCount |-> 1]

\* startGameHost: the state it passes to setGameState
StartState(mode, deck, peers) ==
    LET humans == 1 + Len(peers)
        neededBots == Max(0, TotalSlots(mode) - humans)
        players == [s \in 1..(humans + neededBots) |->
                       IF s = 1 THEN NewPlayer(HostId, FALSE, Dealt(deck, 0), TRUE)
                       ELSE IF s <= humans
                            THEN NewPlayer(peers[s - 1], FALSE, Dealt(deck, s - 1), FALSE)
                       ELSE NewPlayer(BotId(s - humans - 1), TRUE, Dealt(deck, s - 1), FALSE)]
        rest == Drop(deck, (humans + neededBots) * HandSize)
        firstCard == Head(rest)
        initialColor == IF Card(firstCard).color = "black" THEN "red" ELSE Card(firstCard).color
    IN  [status |-> PLAYING, players |-> players, currentPlayerIndex |-> 0, direction |-> 1,
         drawPile |-> Tail(rest), discardPile |-> <<firstCard>>, currentColor |-> initialColor,
         winner |-> NoPlayer, turnCount |-> 1]

(* ------------------------ render and its effects ----------------------- *)
\* The GAME_STATE effect sending only while the match is playing
BroadcastsWhilePlaying(s) == s # gameState /\ connectedPeers # <<>> /\ s.status = PLAYING

\* The GAME_STATE effect runs when gameState changed and reaches the open peers
Broadcasts(s) == s # gameState /\ connectedPeers # <<>>

\* broadcast({type: 'GAME_STATE', payload: gameState}); the channel keeps the
\* last MaxInFlight snapshots in flight
Broadcast(snapshot) ==
    IF ~Broadcasts(snapshot) THEN net
    ELSE LET all == Append(net, snapshot)
         IN  SubSeq(all, Max(1, Len(all) - MaxInFlight + 1), Len(all))

\* The model lets the host broadcast again only when the client holds a
\* snapshot that is still in flight afterwards: the client lags by less than
\* MaxInFlight snapshots.
CaughtUp == IF Len(net) < MaxInFlight THEN TRUE ELSE replica \in Range(Tail(net))

\* The closure of processBotTurn made by the render of state s
BotClosure(s) ==
    [pc |-> "thinking", botIndex |-> s.currentPlayerIndex,
     hand |-> s.players[s.currentPlayerIndex + 1].hand, cont |-> NoCont]

\* The bot-scheduling effect, run when currentPlayerIndex or status changed
BotEffect(s) ==
    IF s.currentPlayerIndex = gameState.currentPlayerIndex /\ s.status = gameState.status
    THEN botTimeoutRef
    ELSE IF /\ s.status = PLAYING
            /\ s.currentPlayerIndex >= 0
            /\ s.currentPlayerIndex < Len(s.players)
            /\ s.players[s.currentPlayerIndex + 1].isBot
         THEN <<BotClosure(s)>>
         ELSE <<>>

\* A render that commits state s: stateRef.current = gameState, then the effects
Commit(s) ==
    /\ IF Broadcasts(s) THEN CaughtUp ELSE TRUE
    /\ gameState' = s
    /\ pendingState' = s
    /\ net' = Broadcast(s)
    /\ botTimeoutRef' = BotEffect(s)

(* ------------------------------ actions -------------------------------- *)
Init ==
    /\ gameState = LobbyState
    /\ pendingState = LobbyState
    /\ connectedPeers = <<>>
    /\ botTimeoutRef = <<>>
    /\ botProcs = {}
    /\ net = <<>>
    /\ replica = LobbyState
    /\ room = NoRoom
    /\ updates = {}
    /\ sends = {}
    /\ polled = NoData
    /\ sendCount = 0
    /\ ledger = [sent |-> {}, handled |-> <<>>]
    /\ engine = NoCall

\* host, JOIN_REQUEST from a new connection
JoinRequest ==
    \E i \in 1..MaxClients :
        /\ ClientId(i) \notin Range(connectedPeers)
        /\ connectedPeers' = Append(connectedPeers, ClientId(i))
        /\ UNCHANGED <<relayVars, engine>> /\ UNCHANGED <<gameState, pendingState, botTimeoutRef, botProcs, net, replica>>

\* host, conn.on('close'): the peer is gone, and with it what was in flight to
\* it; the next peer to join starts from the state of a fresh page
ConnClose ==
    \E i \in 1..MaxClients :
        /\ ClientId(i) \in Range(connectedPeers)
        /\ LET Other(p) == p # ClientId(i)
           IN  connectedPeers' = SelectSeq(connectedPeers, Other)
        /\ net' = <<>>
        /\ replica' = LobbyState
        /\ UNCHANGED <<relayVars, engine>> /\ UNCHANGED <<gameState, pendingState, botTimeoutRef, botProcs>>

\* A click on the host commits at once; the model takes clicks when no
\* update from the network is still queued.
Quiet == pendingState = gameState

StartGameHost ==
    /\ Quiet
    /\ gameState.status = LOBBY
    /\ \E mode \in Modes, deck \in createDeck :
           \* with no card left to flip, firstCard.color throws and nothing is set
           /\ Len(deck) > Max(TotalSlots(mode), 1 + Len(connectedPeers)) * HandSize
           /\ Commit(StartState(mode, deck, connectedPeers))
    /\ UNCHANGED <<relayVars, engine>> /\ UNCHANGED <<connectedPeers, botProcs, replica>>

ResetGame ==
    /\ Quiet
    /\ gameState.status = GAME_OVER
    /\ Commit(LobbyState)
    /\ UNCHANGED <<relayVars, engine>> /\ UNCHANGED <<connectedPeers, botProcs, replica>>

WithinTurns(s) == s.turnCount <= MaxTurns

Suspend(r) ==
    IF r.cont = NoCont THEN botProcs
    ELSE botProcs \cup {[pc |-> "chat", botIndex |-> r.cont.playerIndex, hand |-> <<>>,
                         cont |-> r.cont]}

\* What the host's own screen lets the host submit (onHumanPlayCard,
\* onWildColorSelect, onHumanDraw)
HostActions ==
    LET myIndex == FindIndex(gameState.players, HostId)
        hand == gameState.players[myIndex + 1].hand
        topCard == Card(gameState.discardPile[Len(gameState.discardPile)])
    IN  IF gameState.status # PLAYING \/ myIndex # gameState.currentPlayerIndex THEN {}
        ELSE {PlayerAction(HostId, "DRAW_CARD", NoCard, NoColor)}
             \cup {PlayerAction(HostId, "PLAY_CARD", c, NoColor) :
                      c \in {x \in Range(hand) :
                                /\ isCardValid(Card(x), topCard, gameState.currentColor)
                                /\ Card(x).color # "black"}}
             \cup {PlayerAction(HostId, "PLAY_CARD", c, w) :
                      c \in {x \in Range(hand) : Card(x).color = "black"}, w \in WildChoices}

\* submitAction that hands the action to the local router whatever the role
submitActionLocally(networkRole, ref, pend, action) ==
    handleRemoteAction(ref, pend, action)

\* submitAction: the host (or an offline table) hands the action to its own
\* router; a client sends it to the host and leaves its own state alone
submitAction(networkRole, ref, pend, action) ==
    IF networkRole \in {"HOST", "OFFLINE"}
    THEN handleRemoteAction(ref, pend, action)
    ELSE {[pend |-> pend, cont |-> NoCont]}

HostSubmit ==
    /\ Quiet
    /\ \E action \in HostActions :
       \E r \in submitAction("HOST", gameState, pendingState, action) :
           /\ WithinTurns(r.pend)
           /\ Commit(r.pend)
           /\ botProcs' = Suspend(r)
    /\ UNCHANGED <<relayVars, engine>> /\ UNCHANGED <<connectedPeers, replica>>

\* What a remote peer can put into a PLAYER_ACTION packet
RemoteActions ==
    LET ids == Range(connectedPeers) \cup {UnknownId}
    IN  {PlayerAction(id, "DRAW_CARD", NoCard, NoColor) : id \in ids}
        \cup {PlayerAction(id, "CALL_UNO", NoCard, NoColor) : id \in ids}
        \cup {PlayerAction(id, "PLAY_CARD", c, NoColor) : id \in ids, c \in CardIds \cup {NoCard}}
        \cup {PlayerAction(id, "PLAY_CARD", c, w) :
                 id \in ids, c \in {x \in CardIds : Card(x).color = "black"}, w \in WildChoices}

\* client, submitAction, then host, PLAYER_ACTION packet: handleRemoteAction
\* runs, the render comes later
RemoteAction ==
    /\ connectedPeers # <<>>
    /\ pendingState.turnCount < gameState.turnCount + MaxBatch
    /\ \E action \in RemoteActions :
         /\ \E r \in handleRemoteAction(gameState, pendingState, action) :
                /\ WithinTurns(r.pend)
                /\ pendingState' = r.pend
                /\ botProcs' = Suspend(r)
         /\ \E own \in submitAction("CLIENT", replica, replica, action) :
                replica' = own.pend
    /\ UNCHANGED <<relayVars, engine>> /\ UNCHANGED <<gameState, connectedPeers, botTimeoutRef, net>>

\* React applies the queued updates and renders
Render ==
    /\ ~Quiet
    /\ Commit(pendingState)
    /\ UNCHANGED <<relayVars, engine>> /\ UNCHANGED <<connectedPeers, botProcs, replica>>

\* The 100 ms timer fires: processBotTurn runs up to its 1500 ms wait
BotTimerFires ==
    /\ botTimeoutRef # <<>>
    /\ botProcs' = botProcs \cup {botTimeoutRef[1]}
    /\ botTimeoutRef' = <<>>
    /\ UNCHANGED <<relayVars, engine>> /\ UNCHANGED <<gameState, pendingState, connectedPeers, net, replica>>

\* processBotTurn after its wait
BotMoves(proc) ==
    LET top == Card(gameState.discardPile[Len(gameState.discardPile)])
        bestMove == findBestMove(proc.hand, top, gameState.currentColor)
        wildColor == IF Card(bestMove).color = "black" THEN pickBestColor(proc.hand)
                     ELSE NoColor
    IN  IF bestMove # NoCard
        THEN performPlayCard(gameState, pendingState, proc.botIndex, bestMove, wildColor)
        ELSE {[pend |-> passTurn(d, proc.botIndex), cont |-> NoCont]
              : d \in performDraw(pendingState, proc.botIndex, 1)}

ProcessBotTurn ==
    \E proc \in botProcs :
        /\ proc.pc = "thinking"
        /\ IF gameState.status # PLAYING
           THEN /\ botProcs' = botProcs \ {proc}
                /\ UNCHANGED pendingState
           ELSE \E r \in BotMoves(proc) :
                    /\ WithinTurns(r.pend)
                    /\ pendingState' = r.pend
                    /\ botProcs' = (botProcs \ {proc}) \cup
                           (IF r.cont = NoCont THEN {}
                            ELSE {[pc |-> "chat", botIndex |-> proc.botIndex, hand |-> <<>>,
                                   cont |-> r.cont]})
        /\ UNCHANGED <<relayVars, engine>> /\ UNCHANGED <<gameState, connectedPeers, botTimeoutRef, net, replica>>

\* performPlayCard after await generateBotChat: its last updater
BotChatDone ==
    \E proc \in botProcs :
        /\ proc.pc = "chat"
        /\ LET s == AdvanceUpdater(pendingState, proc.cont.playerIndex,
                                   proc.cont.nextDirection, proc.cont.skipTurn)
           IN  /\ WithinTurns(s)
               /\ pendingState' = s
        /\ botProcs' = botProcs \ {proc}
        /\ UNCHANGED <<relayVars, engine>> /\ UNCHANGED <<gameState, connectedPeers, botTimeoutRef, net, replica>>

\* client, GAME_STATE packet: setGameState(packet.payload)
ReceiveGameState ==
    /\ \E i \in 1..Len(net) : replica' = net[i]
    /\ UNCHANGED <<relayVars, engine>> /\ UNCHANGED <<gameState, pendingState, connectedPeers, botTimeoutRef, botProcs, net>>

Next ==
    \/ JoinRequest
    \/ ConnClose
    \/ StartGameHost
    \/ ResetGame
    \/ HostSubmit
    \/ RemoteAction
    \/ Render
    \/ BotTimerFires
    \/ ProcessBotTurn
    \/ BotChatDone
    \/ ReceiveGameState

Spec == Init /\ [][Next]_vars

\* The scheduling the browser guarantees: a queued render happens, an armed
\* timer fires, a waiting processBotTurn resumes, generateBotChat returns, and a
\* snapshot in flight on the reliable channel arrives.
FairSpec ==
    /\ Spec
    /\ SF_vars(Render)
    /\ WF_vars(BotTimerFires)
    /\ WF_vars(ProcessBotTurn)
    /\ WF_vars(BotChatDone)
    /\ WF_vars(ReceiveGameState)

(* ------------------------- vocabulary of the claims -------------------- *)
\* The states of the host: what is rendered and what the next render commits
HostStates == {gameState, pendingState}

Top(s) == Card(s.discardPile[Len(s.discardPile)])

Hands(s) == Flatten([i \in 1..Len(s.players) |-> s.players[i].hand])

AllCards(s) == Hands(s) \o s.drawPile \o s.discardPile

\* Every card of the deck is held once: no id twice, none missing
Conserved(s) == Len(AllCards(s)) = DeckSize /\ Range(AllCards(s)) = CardIds

InMatch(s) == s.status \in {PLAYING, GAME_OVER}

RosterIds(s) == {s.players[i].id : i \in 1..Len(s.players)}

\* Every DRAW_CARD and PLAY_CARD the router can be handed, whoever sends it
RouterInputs ==
    LET ids == RosterIds(gameState) \cup RosterIds(pendingState) \cup {HostId, UnknownId}
    IN  {PlayerAction(id, "DRAW_CARD", NoCard, NoColor) : id \in ids}
        \cup {PlayerAction(id, "PLAY_CARD", c, NoColor) : id \in ids, c \in CardIds \cup {NoCard}}
        \cup {PlayerAction(id, "PLAY_CARD", c, w) :
                 id \in ids, c \in {x \in CardIds : Card(x).color = "black"}, w \in WildChoices}

\* The sender is not in the roster of s or does not hold the turn of s
OutOfTurn(s, action) ==
    LET idx == FindIndex(s.players, action.playerId)
    IN  idx = -1 \/ idx # s.currentPlayerIndex

Routed(action) == {r.pend : r \in handleRemoteAction(gameState, pendingState, action)}

\* The sender holds the turn of s with the card of the action as the whole hand
PlaysLastCard(s, action) ==
    /\ s.status = PLAYING
    /\ action.actionType = "PLAY_CARD"
    /\ ~OutOfTurn(s, action)
    /\ s.players[s.currentPlayerIndex + 1].hand = <<action.cardId>>

\* t is s ended by the player at index i, and nothing else of s has changed
WonBy(s, t, i) ==
    /\ t.status = GAME_OVER
    /\ t.winner.id = s.players[i + 1].id
    /\ t.direction = s.direction
    /\ t.currentPlayerIndex = s.currentPlayerIndex
    /\ t.turnCount = s.turnCount
    /\ t.drawPile = s.drawPile
    /\ \A j \in 1..Len(s.players) : j # i + 1 => t.players[j] = s.players[j]

(* -------------------------------- claims ------------------------------- *)
\* C1: while a match is playing or over, every card id of the deck dealt at the
\* start is in exactly one player's hand, the draw pile or the discard pile.
CardConservation == InMatch(gameState) => Conserved(gameState)

\* C2: a DRAW_CARD or PLAY_CARD whose sender is not in the roster, or does not
\* hold the current turn of the host's match state, leaves that state unchanged.
WrongTurnRejected ==
    \A action \in RouterInputs :
        OutOfTurn(pendingState, action) => Routed(action) = {pendingState}

\* C2, read against the rendered state alone: the sender is unknown to
\* stateRef.current or does not hold its turn.
WrongTurnRejectedAsRendered ==
    \A action \in RouterInputs :
        OutOfTurn(gameState, action) => Routed(action) = {pendingState}

\* C3: every card a play appends to the discard pile, whoever plays it (a
\* remote client, the host's screen or a bot), is legal on the discard top and
\* the active color of the state the play is applied to; an illegal card is
\* dropped and leaves the piles as they are.
OnlyLegalPlaysApplied ==
    [][\A c \in CardIds :
          (/\ pendingState.status = PLAYING
           /\ pendingState'.status = PLAYING
           /\ pendingState'.discardPile = Append(pendingState.discardPile, c))
          => isCardValid(Card(c), Top(pendingState), pendingState.currentColor)]_vars

\* C4: when the turn holder plays the last card of the hand, the match is over
\* with that player as winner in the same step, and nothing else of the card
\* is applied: no penalty draw, no flip, no advance of the turn or its counter.
LastCardWins ==
    \A action \in RouterInputs :
        IF PlaysLastCard(pendingState, action)
        THEN \A t \in Routed(action) : WonBy(pendingState, t, pendingState.currentPlayerIndex)
        ELSE TRUE

\* C4, read against the rendered state alone: stateRef.current shows the sender
\* at the turn with the card as the whole hand.
LastCardWinsAsRendered ==
    \A action \in RouterInputs :
        IF PlaysLastCard(gameState, action)
        THEN \A t \in Routed(action) : WonBy(gameState, t, gameState.currentPlayerIndex)
        ELSE TRUE

\* C5: while the match is playing the active color is one of the four chromatic
\* colors, never "black", also after a wild played without a chosen color.
ActiveColorChromatic == gameState.status = PLAYING => gameState.currentColor \in Chromatic

\* C6: in every host state the winner is set exactly when the status is GAME_OVER.
WinnerIffGameOver == \A s \in HostStates : (s.winner # NoPlayer) <=> (s.status = GAME_OVER)

\* A match the last card of a bot has ended
BotHasWon == gameState.status = GAME_OVER /\ gameState.winner.isBot

\* C7: while the match is playing, 0 <= currentPlayerIndex < players.length,
\* in both directions; and the advance of the turn, applied once or twice,
\* stays in that range for tables of 2 to 5.
TurnPointerInRange ==
    /\ \A s \in HostStates :
           s.status = PLAYING =>
               s.currentPlayerIndex >= 0 /\ s.currentPlayerIndex < Len(s.players)
    /\ \A n \in 2..5 : \A c \in 0..(n - 1) : \A d \in {1, -1} :
           /\ getNextPlayerIndex(c, d, n) \in 0..(n - 1)
           /\ getNextPlayerIndex(getNextPlayerIndex(c, d, n), d, n) \in 0..(n - 1)

\* The turn went backwards from the first seat to the last one of a full table
WrappedBackwards ==
    /\ gameState.status = PLAYING
    /\ gameState.direction = -1
    /\ Len(gameState.players) >= 4
    /\ gameState.currentPlayerIndex = Len(gameState.players) - 1
    /\ gameState.turnCount = 2

\* C8: while the match is playing the discard pile is not empty.
DiscardNonEmpty == \A s \in HostStates : s.status = PLAYING => s.discardPile # <<>>

\* A card has been played, so the discard pile held two cards or more, and a
\* draw has reclaimed it: only its top is left
ReclaimedWhilePlaying ==
    /\ gameState.status = PLAYING
    /\ Len(gameState.discardPile) = 1
    /\ \E i \in 1..Len(gameState.players) : Len(gameState.players[i].hand) < HandSize

\* The bot at the turn of the rendered state, at turn number k
BotToMove(k) ==
    /\ gameState.status = PLAYING
    /\ gameState.turnCount = k
    /\ gameState.currentPlayerIndex < Len(gameState.players)
    /\ gameState.players[gameState.currentPlayerIndex + 1].isBot

\* C9: whenever the match is playing and a bot holds the turn, the bot
\* eventually moves: the turn counter advances or the match ends.
BotProgress ==
    \A k \in 1..(MaxTurns - 1) :
        BotToMove(k) ~> (gameState.turnCount > k \/ gameState.status # PLAYING)

RebroadcastAfterAction ==
    [][/\ (gameState' # gameState /\ InMatch(gameState') /\ connectedPeers # <<>>)
          => (net' # <<>> /\ net'[Len(net')] = gameState')
       /\ (net' # <<>> /\ pendingState' = gameState')
          => net'[Len(net')] = gameState']_vars

\* The state a winning play left has been sent, the state before it still in flight
WinSnapshotSent ==
    /\ connectedPeers # <<>>
    /\ gameState.status = GAME_OVER
    /\ Len(net) = MaxInFlight
    /\ net[Len(net)] = gameState
    /\ net[Len(net) - 1].status = PLAYING

\* What the router would leave if it read the queued state, the one that holds
\* the effects of every action accepted so far
RoutedOnLatest(action) ==
    {r.pend : r \in handleRemoteAction(pendingState, pendingState, action)}

\* C12: the router validates every action against the state that holds the
\* complete effects of the actions accepted before it; a second action that
\* arrives before the first one is rendered is dropped and changes nothing.
OneActionAtATime ==
    \A action \in RouterInputs : Routed(action) = RoutedOnLatest(action)

(* --------------------- the effect of one play or draw ------------------ *)
\* performPlayCard run to its end: with the updater it queues after
\* generateBotChat, when it waits for one
PlayedOut(ref, pend, playerIndex, cardId, selectedWildColor) ==
    {IF r.cont = NoCont THEN r.pend
     ELSE AdvanceUpdater(r.pend, r.cont.playerIndex, r.cont.nextDirection, r.cont.skipTurn)
     : r \in performPlayCard(ref, pend, playerIndex, cardId, selectedWildColor)}

\* The seat k steps from seat p at a table of n
Seat(p, k, n) == (p + k + 2 * n) % n

\* The plays that are not the last card of a hand: the seat at the turn, in the
\* rendered state and with the queued updates applied, and a card the seat holds
NonWinningPlays ==
    IF gameState.status # PLAYING \/ pendingState.status # PLAYING THEN {}
    ELSE LET p == pendingState.currentPlayerIndex
         IN  IF p # gameState.currentPlayerIndex \/ p < 0 \/ p >= Len(pendingState.players)
             THEN {}
             ELSE {[p |-> p, c |-> c, w |-> w] :
                      c \in {x \in Range(pendingState.players[p + 1].hand)
                                   \cap Range(gameState.players[p + 1].hand) :
                                /\ Len(pendingState.players[p + 1].hand) > 1
                                /\ Len(gameState.players[p + 1].hand) > 1},
                      w \in WildChoices}

\* The states a non-winning play leaves
After(play) == PlayedOut(gameState, pendingState, play.p, play.c, play.w)

\* The hand of seat i is in t what it is in s
SameHand(s, t, i) == t.players[i + 1].hand = s.players[i + 1].hand

\* No seat but the one that plays has another hand in t than in s
OthersKeepHands(s, t, p) ==
    \A i \in 0..(Len(s.players) - 1) : i # p => SameHand(s, t, i)

\* C13: a non-winning skip played at seat p of n, direction d, gives the turn
\* to seat (p + 2d) mod n; the seat passed over neither plays nor draws, and
\* the direction stays d.
SkipEffect ==
    \A play \in NonWinningPlays :
        Card(play.c).type = "skip" =>
            \A t \in After(play) :
                LET s == pendingState
                    n == Len(s.players)
                IN  /\ t.currentPlayerIndex = Seat(play.p, 2 * s.direction, n)
                    /\ t.direction = s.direction
                    /\ OthersKeepHands(s, t, play.p)
                    /\ t.drawPile = s.drawPile
                    /\ t.discardPile = Append(s.discardPile, play.c)

\* Seat 0 has played a skip at a full table going clockwise: the turn is at seat 2
SkippedSeatOne ==
    /\ gameState.status = PLAYING
    /\ Len(gameState.players) >= 4
    /\ gameState.turnCount = 2
    /\ gameState.direction = 1
    /\ gameState.currentPlayerIndex = 2
    /\ Card(gameState.discardPile[Len(gameState.discardPile)]).type = "skip"
    /\ Len(gameState.discardPile) = 2
    /\ Len(gameState.players[2].hand) = HandSize

\* Cards seat i holds more in t than in s
Gain(s, t, i) == Len(t.players[i + 1].hand) - Len(s.players[i + 1].hand)

\* performDraw(victim, 2) for a draw2, performDraw(victim, 4) for a wild4
PenaltyCount(type) == IF type = "draw2" THEN 2 ELSE 4

\* Cards a draw can take in s: the draw pile and the discard pile below its top
Drawable(s) == Len(s.drawPile) + Len(s.discardPile) - 1

PenaltyPlays == {play \in NonWinningPlays : Card(play.c).type \in {"draw2", "wild4"}}

\* C14 as the specification states it: after a non-winning draw2 (wild4) by
\* seat p the seat (p + d) mod n holds exactly 2 (4) cards more, no other hand
\* grows and the turn is at seat (p + 2d) mod n.
PenaltyDrawsFullCount ==
    \A play \in PenaltyPlays :
        \A t \in After(play) :
            LET s == pendingState
                n == Len(s.players)
                victim == Seat(play.p, s.direction, n)
            IN  /\ Gain(s, t, victim) = PenaltyCount(Card(play.c).type)
                /\ \A i \in 0..(n - 1) : i # victim => Gain(s, t, i) <= 0
                /\ t.currentPlayerIndex = Seat(play.p, 2 * s.direction, n)

\* C14: after a non-winning draw2 (wild4) by seat p the seat (p + d) mod n
\* holds 2 (4) cards more, or every card the draw pile and the discard pile
\* below the played card could give when these are fewer; no other hand grows
\* and the turn is at seat (p + 2d) mod n.
PenaltyDraws ==
    \A play \in PenaltyPlays :
        \A t \in After(play) :
            LET s == pendingState
                n == Len(s.players)
                victim == Seat(play.p, s.direction, n)
                count == PenaltyCount(Card(play.c).type)
            IN  /\ Gain(s, t, victim) = Min(count, Drawable(s) + 1)
                /\ \A i \in 0..(n - 1) : i # victim => Gain(s, t, i) <= 0
                /\ Gain(s, t, play.p) = -1
                /\ t.currentPlayerIndex = Seat(play.p, 2 * s.direction, n)

\* A draw2 has just given two cards to the seat after the host's, which lost the turn
PenaltyTaken ==
    /\ gameState.status = PLAYING
    /\ gameState.turnCount = 2
    /\ Len(gameState.players) >= 4
    /\ Top(gameState).type = "draw2"
    /\ Len(gameState.players[2].hand) = HandSize + 2
    /\ gameState.currentPlayerIndex = 2

ReversePlays == {play \in NonWinningPlays : Card(play.c).type = "reverse"}

\* The direction and the turn a reverse by seat p leaves when played on s
Reversed(s, t, p) ==
    LET n == Len(s.players)
    IN  /\ t.direction = -s.direction
        /\ t.currentPlayerIndex = IF n = 2 THEN p ELSE Seat(p, -s.direction, n)

\* C15: a non-winning reverse flips the direction; at a table of three or more
\* the turn goes to seat (p - d) mod n, at a table of two the acting seat p
\* holds the turn again.
ReverseEffect ==
    \A play \in ReversePlays : \A t \in After(play) : Reversed(pendingState, t, play.p)

\* The same for plays made on a rendered state, with no update queued
ReverseEffectAsRendered ==
    Quiet => ReverseEffect

PlainPlays == {play \in NonWinningPlays : Card(play.c).type \in {"number", "wild"}}

\* C16: a non-winning numeral or plain wild leaves the direction, the draw
\* pile and every other hand as they were, takes one card from the acting
\* hand and moves the turn one step in the current direction, to (p + d) mod n.
PlainPlayEffect ==
    \A play \in PlainPlays :
        \A t \in After(play) :
            LET s == pendingState
                n == Len(s.players)
            IN  /\ t.direction = s.direction
                /\ t.drawPile = s.drawPile
                /\ OthersKeepHands(s, t, play.p)
                /\ Gain(s, t, play.p) = -1
                /\ t.currentPlayerIndex = Seat(play.p, s.direction, n)
                /\ t.turnCount = s.turnCount + 1

\* The host has opened with a plain wild at a table of four or five, and the
\* turn is at seat 1 with nothing drawn
PlainWildPlayed ==
    /\ gameState.status = PLAYING
    /\ gameState.turnCount = 2
    /\ Len(gameState.players) >= 4
    /\ Top(gameState).type = "wild"
    /\ gameState.currentPlayerIndex = 1
    /\ gameState.direction = 1
    /\ \A i \in 2..Len(gameState.players) : Len(gameState.players[i].hand) = HandSize
    /\ Len(gameState.drawPile) = DeckSize - Len(gameState.players) * HandSize - 1

\* The seat that holds the turn on the rendered and on the queued state, or -1
TurnHolder ==
    IF gameState.status # PLAYING \/ pendingState.status # PLAYING THEN -1
    ELSE IF pendingState.currentPlayerIndex # gameState.currentPlayerIndex THEN -1
    ELSE IF pendingState.currentPlayerIndex >= Len(pendingState.players) THEN -1
    ELSE pendingState.currentPlayerIndex

\* The states a DRAW_CARD of the turn holder leaves
AfterDraw ==
    IF TurnHolder < 0 THEN {}
    ELSE {r.pend : r \in handleRemoteAction(gameState, pendingState,
                             PlayerAction(pendingState.players[TurnHolder + 1].id,
                                          "DRAW_CARD", NoCard, NoColor))}

\* C17: a DRAW_CARD of the turn holder with a non-empty draw pile moves the
\* front card of the draw pile to the end of the holder's hand and clears the
\* holder's isUno; the other hands, the discard pile, the direction and the
\* active color stay, and the turn moves one step in the current direction.
DrawEffect ==
    \A t \in AfterDraw :
        LET s == pendingState
            p == TurnHolder
            n == Len(s.players)
        IN  s.drawPile # <<>> =>
                /\ t.players[p + 1].hand = Append(s.players[p + 1].hand, Head(s.drawPile))
                /\ t.drawPile = Tail(s.drawPile)
                /\ t.players[p + 1].isUno = FALSE
                /\ OthersKeepHands(s, t, p)
                /\ t.discardPile = s.discardPile
                /\ t.direction = s.direction
                /\ t.currentColor = s.currentColor
                /\ t.currentPlayerIndex = Seat(p, s.direction, n)
                /\ t.turnCount = s.turnCount + 1

\* Nothing has been played yet: the host and then the client have each drawn
\* one card, and the turn is back at the host
HostAndClientDrew ==
    /\ gameState.status = PLAYING
    /\ Len(gameState.players) = 2
    /\ gameState.players[2].id = ClientId(1)
    /\ Len(gameState.discardPile) = 1
    /\ gameState.turnCount = 3
    /\ gameState.currentPlayerIndex = 0
    /\ \A i \in 1..2 : Len(gameState.players[i].hand) = HandSize + 1
    /\ Len(gameState.drawPile) = DeckSize - 2 * HandSize - 3

\* The counts performDraw is called with: a draw, a draw2, a wild4
DrawCounts == {1, 2, 4}

\* The states performDraw is applied to: the queued state, and for a penalty
\* the queued state with the card just played on its discard pile
DrawnFrom ==
    IF pendingState.status # PLAYING THEN {}
    ELSE {pendingState}
         \cup {PlayUpdater(pendingState, play.p, play.c, ColorToSet(Card(play.c), play.w))
               : play \in PenaltyPlays}

\* The last k cards of a hand
Last(hand, k) == SubSeq(hand, Len(hand) - k + 1, Len(hand))

\* C18: a draw of count cards that finds fewer than count in the draw pile and
\* a non-empty discard pile leaves the discard pile holding its previous top
\* alone; the cards below the top, in some order, are put in front of the old
\* draw pile, which then holds old draw + old discard - 1 cards, and the drawn
\* cards are taken from its front.
DiscardReclaim ==
    \A s \in DrawnFrom : \A count \in DrawCounts : \A i \in 0..(Len(s.players) - 1) :
        (Len(s.drawPile) < count /\ s.discardPile # <<>>) =>
            \A t \in performDraw(s, i, count) :
                LET below == SubSeq(s.discardPile, 1, Len(s.discardPile) - 1)
                    pile == Last(t.players[i + 1].hand, Gain(s, t, i)) \o t.drawPile
                IN  /\ t.discardPile = <<s.discardPile[Len(s.discardPile)]>>
                    /\ Len(pile) = Len(s.drawPile) + Len(s.discardPile) - 1
                    /\ Drop(pile, Len(below)) = s.drawPile
                    /\ Range(Prefix(pile, Len(below))) = Range(below)
                    /\ Gain(s, t, i) = Min(count, Len(pile))

\* The host's wild4 at a table of five found one card in the draw pile: the
\* card below it was reclaimed and the wild4 is the whole discard pile
ReclaimedForPenalty ==
    /\ gameState.status = PLAYING
    /\ Len(gameState.players) = 5
    /\ gameState.turnCount = 2
    /\ Top(gameState).type = "wild4"
    /\ Len(gameState.discardPile) = 1
    /\ gameState.drawPile = <<>>
    /\ Len(gameState.players[2].hand) = HandSize + 2

\* The calls of performDraw that can come next: the turn holder's draw of one
\* card, and the penalty of a draw2 or wild4 the turn holder can play
DrawCalls ==
    (IF TurnHolder < 0 THEN {}
     ELSE {[s |-> pendingState, i |-> TurnHolder, count |-> 1]})
    \cup {[s |-> PlayUpdater(pendingState, play.p, play.c, ColorToSet(Card(play.c), play.w)),
           i |-> getNextPlayerIndex(play.p, gameState.direction, Len(gameState.players)),
           count |-> PenaltyCount(Card(play.c).type)]
          : play \in PenaltyPlays}

\* C19 as the specification states it: every draw and penalty draw takes
\* exactly count cards from the draw pile and the hand grows by exactly count.
DrawDeliversFullCount ==
    \A call \in DrawCalls :
        \A t \in performDraw(call.s, call.i, call.count) :
            Gain(call.s, t, call.i) = call.count

\* C19: every draw and penalty draw takes the first count cards of the draw
\* pile (after a reclaim when the draw pile holds fewer than count), or all of
\* its cards when it holds fewer, and puts exactly these at the end of the
\* hand; no card is created or lost.
DrawDelivers ==
    \A call \in DrawCalls :
        \A t \in performDraw(call.s, call.i, call.count) :
            LET s == call.s
                i == call.i
                pile == IF Len(s.drawPile) >= call.count THEN Len(s.drawPile) ELSE Drawable(s)
                k == Min(call.count, pile)
                drawn == Last(t.players[i + 1].hand, k)
            IN  /\ Gain(s, t, i) = k
                /\ t.players[i + 1].hand = s.players[i + 1].hand \o drawn
                /\ Len(t.drawPile) = pile - k
                /\ OthersKeepHands(s, t, i)
                /\ Len(s.drawPile) >= call.count =>
                       /\ drawn = Prefix(s.drawPile, k)
                       /\ t.drawPile = Drop(s.drawPile, k)
                       /\ t.discardPile = s.discardPile
                /\ Len(AllCards(t)) = Len(AllCards(s))
                /\ Range(AllCards(t)) = Range(AllCards(s))

\* At a table of five the host drew the last card of the draw pile, and the
\* seat after the host then drew from empty piles: its hand did not grow
DrewFromEmptyPiles ==
    /\ gameState.status = PLAYING
    /\ Len(gameState.players) = 5
    /\ gameState.turnCount = 3
    /\ gameState.currentPlayerIndex = 2
    /\ gameState.drawPile = <<>>
    /\ Len(gameState.discardPile) = 1
    /\ Len(gameState.players[1].hand) = HandSize + 1
    /\ Len(gameState.players[2].hand) = HandSize

\* createDeck: cards per color (one 0, copies of each higher numeral and of
\* each action) and the wilds
DeckSizeOf(colors, numeralMax, copies, wildCopies) ==
    colors * (1 + numeralMax * copies + Len(ActionTypes) * copies) + 2 * wildCopies

\* C20: the state a match starts in.  Every seat holds HandSize cards (7 in
\* the program), the discard pile holds the one flipped card, the draw pile
\* holds the rest of the deck, DeckSize - HandSize * n - 1 cards (108 - 7n - 1
\* for the program's deck of 4 colors, numerals to 9, two copies and four
\* pairs of wilds; 79 for n = 4), the turn is at seat 0 with direction +1,
\* status playing, turnCount 1 and no winner.
MatchStart ==
    [][(gameState.status = LOBBY /\ gameState'.status # LOBBY) =>
          LET t == gameState'
              n == Len(t.players)
          IN  /\ t.status = PLAYING
              /\ n >= 2
              /\ \A i \in 1..n : Len(t.players[i].hand) = HandSize
              /\ Len(t.discardPile) = 1
              /\ Len(t.drawPile) = DeckSize - HandSize * n - 1
              /\ Conserved(t)
              /\ t.currentPlayerIndex = 0
              /\ t.direction = 1
              /\ t.turnCount = 1
              /\ t.winner = NoPlayer
              /\ pendingState' = t
              /\ DeckSize = DeckSizeOf(NumColors, NumeralMax, Copies, WildCopies)
              /\ DeckSizeOf(4, 9, 2, 4) = 108
              /\ DeckSizeOf(4, 9, 2, 4) - 7 * 4 - 1 = 79]_vars

\* A match of four has just started with the client at seat 1
StartedWithClient ==
    /\ gameState.status = PLAYING
    /\ gameState.turnCount = 1
    /\ Len(gameState.players) = 4
    /\ gameState.players[2].id = ClientId(1)
    /\ gameState.players[3].isBot
    /\ Len(gameState.drawPile) = DeckSize - 4 * HandSize - 1
    /\ botTimeoutRef = <<>>

\* C21: the match starts with the flipped card's color as the active color
\* when that card is chromatic and with red when it is a wild or wild4; the
\* flipped card has no effect: the turn is at seat 0 in direction +1 and every
\* seat, seat 0 and the seat after it included, holds the cards it was dealt.
InitialColor ==
    [][(gameState.status = LOBBY /\ gameState'.status = PLAYING) =>
          LET t == gameState'
              flipped == Top(t)
          IN  /\ t.discardPile = <<t.discardPile[1]>>
              /\ flipped.color \in Chromatic => t.currentColor = flipped.color
              /\ flipped.type \in {"wild", "wild4"} => t.currentColor = "red"
              /\ t.currentColor \in Chromatic
              /\ t.currentPlayerIndex = 0
              /\ t.direction = 1
              /\ \A i \in 1..Len(t.players) :
                     /\ Len(t.players[i].hand) = HandSize
                     /\ \E deck \in createDeck : t.players[i].hand = Dealt(deck, i - 1)]_vars

\* A match has just started on a flipped wild4: red is active, nobody drew
StartedOnWildFour ==
    /\ gameState.status = PLAYING
    /\ gameState.turnCount = 1
    /\ Len(gameState.discardPile) = 1
    /\ Top(gameState).type = "wild4"
    /\ gameState.currentColor = "red"
    /\ gameState.currentPlayerIndex = 0
    /\ Len(gameState.players[2].hand) = HandSize

(* ----------------------- the lobby with more peers --------------------- *)
\* The peers that may join the lobby before the host starts a match
MaxJoined == 3

\* host, JOIN_REQUEST while the match has not started
JoinLobby ==
    \E i \in 1..MaxJoined :
        /\ gameState.status = LOBBY
        /\ ClientId(i) \notin Range(connectedPeers)
        /\ connectedPeers' = Append(connectedPeers, ClientId(i))
        /\ UNCHANGED <<relayVars, engine>> /\ UNCHANGED <<gameState, pendingState, botTimeoutRef, botProcs, net, replica>>

\* Peers join in any order, then the host starts a match in some mode
LobbySpec == Init /\ [][JoinLobby \/ StartGameHost]_vars

\* The seats of the table t in order: the host, the peers in join order, then bots
HumansThenBots(t, peers) ==
    LET humans == 1 + Len(peers)
    IN  /\ Len(t.players) >= humans
        /\ t.players[1].id = HostId
        /\ t.players[1].isHost
        /\ \A k \in 1..Len(peers) : t.players[k + 1].id = peers[k]
        /\ \A i \in 1..Len(t.players) : t.players[i].isBot <=> i > humans
        /\ \A i, j \in 1..Len(t.players) : t.players[i].id = t.players[j].id => i = j

\* C22: a match starts with the host and the connected peers seated first in
\* join order and bots after them, with as many players as the mode has seats
\* (2, 4 or 5), all ids distinct.
SeatFilling ==
    [][(gameState.status = LOBBY /\ gameState'.status = PLAYING) =>
          /\ HumansThenBots(gameState', connectedPeers)
          /\ \E mode \in Modes, deck \in createDeck :
                 /\ gameState' = StartState(mode, deck, connectedPeers)
                 /\ Len(gameState'.players) = TotalSlots(mode)]_vars

\* The order of the seats alone, whatever their number
SeatOrder ==
    [][(gameState.status = LOBBY /\ gameState'.status = PLAYING) =>
          HumansThenBots(gameState', connectedPeers)]_vars

\* Every packet the router can be handed, CALL_UNO included
AllRouterInputs ==
    RouterInputs
    \cup {PlayerAction(id, "CALL_UNO", NoCard, NoColor)
          : id \in RosterIds(gameState) \cup RosterIds(pendingState) \cup {HostId, UnknownId}}

\* handleRemoteAction returns before it queues an update
Rejected(action) ==
    LET idx == FindIndex(gameState.players, action.playerId)
    IN  IF idx = -1 \/ idx # gameState.currentPlayerIndex THEN TRUE
        ELSE IF action.actionType = "PLAY_CARD"
             THEN action.cardId \notin Range(gameState.players[idx + 1].hand)
        ELSE action.actionType # "DRAW_CARD"

\* The queued states the next step of the router or of a bot can leave
NextQueued ==
    UNION {Routed(action) : action \in AllRouterInputs}
    \cup UNION {{r.pend : r \in BotMoves(proc)} : proc \in {q \in botProcs : q.pc = "thinking"}}
    \cup {AdvanceUpdater(pendingState, proc.cont.playerIndex, proc.cont.nextDirection,
                         proc.cont.skipTurn) : proc \in {q \in botProcs : q.pc = "chat"}}

\* C23: while the match is playing no step lowers the turn counter, and the
\* queued counter is never behind the rendered one; a non-winning play of the
\* turn holder, whatever the card, raises it by exactly 1, and so does a draw
\* followed by the pass; a rejected action and a CALL_UNO leave it as it is.
TurnCounter ==
    (pendingState.status = PLAYING /\ gameState.status = PLAYING) =>
        /\ pendingState.turnCount >= gameState.turnCount
        /\ \A t \in NextQueued :
               t.status = PLAYING =>
                   t.turnCount \in {pendingState.turnCount, pendingState.turnCount + 1}
        /\ \A play \in NonWinningPlays :
               \A t \in After(play) : t.turnCount = pendingState.turnCount + 1
        /\ \A t \in AfterDraw : t.turnCount = pendingState.turnCount + 1
        /\ \A action \in AllRouterInputs :
               (Rejected(action) \/ action.actionType = "CALL_UNO") =>
                   \A t \in Routed(action) : t.turnCount = pendingState.turnCount

\* Four turns have been counted at a table of two: counter 5, both have acted
CountedFourTurns ==
    /\ gameState.status = PLAYING
    /\ Len(gameState.players) = 2
    /\ gameState.turnCount = MaxTurns
    /\ pendingState = gameState
    /\ Len(gameState.discardPile) >= 3

\* lobby -> playing -> game-over -> lobby
LifecycleEdges == {<<LOBBY, PLAYING>>, <<PLAYING, GAME_OVER>>, <<GAME_OVER, LOBBY>>}

\* The step from s to t keeps the status or follows an edge of the lifecycle
AlongLifecycle(s, t) == s.status # t.status => <<s.status, t.status>> \in LifecycleEdges

\* Hands, piles, turn pointer and turn counter of t are those of s
SameTable(s, t) ==
    /\ Len(t.players) = Len(s.players)
    /\ \A i \in 0..(Len(s.players) - 1) : SameHand(s, t, i)
    /\ t.drawPile = s.drawPile
    /\ t.discardPile = s.discardPile
    /\ t.currentPlayerIndex = s.currentPlayerIndex
    /\ t.turnCount = s.turnCount

\* The status of the host's match state, rendered and queued, changes only
\* along the lifecycle
StatusEdges ==
    [][AlongLifecycle(gameState, gameState') /\ AlongLifecycle(pendingState, pendingState')]_vars

\* C24: the status changes only along lobby -> playing -> game-over -> lobby,
\* and while the status stays game-over no step changes hands, piles, turn
\* pointer or turn counter.
LifecycleOrdering ==
    [][/\ AlongLifecycle(gameState, gameState')
       /\ AlongLifecycle(pendingState, pendingState')
       /\ (pendingState.status = GAME_OVER /\ pendingState'.status = GAME_OVER)
              => SameTable(pendingState, pendingState')]_vars

\* The second half of C24 for a rendered game-over alone, with no update queued
GameOverTerminalAsRendered ==
    [][(Quiet /\ gameState.status = GAME_OVER /\ pendingState'.status = GAME_OVER)
           => SameTable(pendingState, pendingState')]_vars

\* resetGame of the polling host: the roster stays, hands and isUno are cleared
resetGamePolling(ref) ==
    [LobbyState EXCEPT !.players = [i \in 1..Len(ref.players) |->
                                       [ref.players[i] EXCEPT !.hand = <<>>, !.isUno = FALSE]]]

\* t is the lobby a reset of s should leave: nothing of the match but its roster
ResetOf(s, t) ==
    /\ t.status = LOBBY
    /\ t.winner = NoPlayer
    /\ t.drawPile = <<>>
    /\ t.discardPile = <<>>
    /\ t.turnCount = 0
    /\ Len(t.players) = Len(s.players)
    /\ \A i \in 1..Len(s.players) :
           /\ t.players[i].id = s.players[i].id
           /\ t.players[i].hand = <<>>

\* C25: the reset of a finished match leaves status lobby, no winner, empty
\* piles, turn counter 0 and the roster of the match, same ids in the same
\* order, with every hand empty.
ResetKeepsRoster ==
    [][(gameState.status = GAME_OVER /\ gameState'.status = LOBBY)
           => ResetOf(gameState, gameState')]_vars

\* The same for the state the polling host's resetGame builds
ResetKeepsRosterPolling ==
    gameState.status = GAME_OVER => ResetOf(gameState, resetGamePolling(gameState))

(* ------------------- peers that name another player -------------------- *)
\* The router takes the sender from the packet's payload (action.playerId),
\* so a peer can submit an action in the name of a bot at the table.  The
\* model's peers do it with a draw, or with the play of a bot's last card.
ForgedActions ==
    LET bots == {j \in 1..Len(gameState.players) : gameState.players[j].isBot}
    IN  {PlayerAction(gameState.players[j].id, "DRAW_CARD", NoCard, NoColor) : j \in bots}
        \cup {PlayerAction(gameState.players[j].id, "PLAY_CARD",
                            gameState.players[j].hand[1], NoColor)
              : j \in {k \in bots : Len(gameState.players[k].hand) = 1}}

\* host, PLAYER_ACTION packet whose playerId is a bot's
ForgedAction ==
    /\ connectedPeers # <<>>
    /\ pendingState.turnCount < gameState.turnCount + MaxBatch
    /\ \E action \in ForgedActions :
       \E r \in handleRemoteAction(gameState, pendingState, action) :
           /\ r.pend # pendingState
           /\ WithinTurns(r.pend)
           /\ pendingState' = r.pend
           /\ botProcs' = Suspend(r)
    /\ UNCHANGED <<relayVars, engine>> /\ UNCHANGED <<gameState, connectedPeers, botTimeoutRef, net, replica>>

\* One match, from the lobby to its end, with peers that may also send such
\* packets
OpenNext ==
    \/ JoinRequest
    \/ ConnClose
    \/ StartGameHost
    \/ HostSubmit
    \/ RemoteAction
    \/ ForgedAction
    \/ Render
    \/ BotTimerFires
    \/ ProcessBotTurn
    \/ BotChatDone
    \/ ReceiveGameState

OpenSpec == Init /\ [][OpenNext]_vars

\* The step ends the thinking delay of proc: processBotTurn goes on after its wait
DelayElapses(proc) == proc \in botProcs /\ proc.pc = "thinking" /\ proc \notin botProcs'

\* C26: when the thinking delay of a scheduled bot move elapses and the status
\* of the host's match state is no longer playing, the move is discarded and
\* no part of the match state changes.
BotMoveDiscarded ==
    [][\A proc \in botProcs :
           (DelayElapses(proc) /\ pendingState.status # PLAYING)
               => (pendingState' = pendingState /\ gameState' = gameState)]_vars

\* The same for the status the host has rendered
BotMoveDiscardedAsRendered ==
    [][\A proc \in botProcs :
           (DelayElapses(proc) /\ gameState.status # PLAYING)
               => (pendingState' = pendingState /\ gameState' = gameState)]_vars

\* A bot move is waiting out its delay and the match has been rendered over
MoveOutlivedMatch ==
    /\ gameState.status = GAME_OVER
    /\ \E proc \in botProcs : proc.pc = "thinking"

\* The step applies the move of proc: its delay elapses and the queued state changes
MoveApplied(proc) == DelayElapses(proc) /\ pendingState' # pendingState

\* s is playing, the bot of proc holds the turn of s and its hand in s is the
\* one proc was scheduled with
InTurn(proc, s) ==
    /\ s.status = PLAYING
    /\ proc.botIndex = s.currentPlayerIndex
    /\ proc.botIndex < Len(s.players)
    /\ s.players[proc.botIndex + 1].hand = proc.hand

\* C27: a bot move is applied only when the match is playing, the bot holds
\* the turn and the move uses the bot's current hand; a move scheduled for a
\* turn that has passed, before or during the wait of processBotTurn, is
\* never applied, so no bot turn gets two moves.
NoStaleBotMoves ==
    [][\A proc \in botProcs :
           MoveApplied(proc) => (InTurn(proc, gameState) /\ InTurn(proc, pendingState))]_vars

\* The same against the rendered state alone
NoStaleBotMovesAsRendered ==
    [][\A proc \in botProcs : MoveApplied(proc) => InTurn(proc, gameState)]_vars

\* The 100 ms timer of a bot is dropped by the render in which the turn leaves
\* the bot: a timer that is pending belongs to the seat that holds the turn
PendingTimerInTurn ==
    botTimeoutRef # <<>> =>
        /\ gameState.status = PLAYING
        /\ botTimeoutRef[1].botIndex = gameState.currentPlayerIndex

(* ------------------------ C28: read-only replicas ----------------------- *)
\* The seat of the (only) client in state s, 0-based, -1 when it has none
ClientSeat(s) == FindIndex(s.players, ClientId(1))

\* A step that replaces the client's state by a snapshot the host broadcast
\* (GAME_STATE, setGameState(packet.payload))
Replaced == replica' \in Range(net)

\* A step in which the peer leaves: the next client starts from a fresh page
FreshPage == connectedPeers' # connectedPeers /\ replica' = LobbyState

\* C28: the match state of a CLIENT changes only by being replaced with a
\* snapshot received from the host; the client's own play, draw and call-uno
\* intents reach the host but leave the client's state as it was, and a step
\* that changes the client's state neither changes the host's state nor
\* starts or advances a bot move.
ReadOnlyReplica ==
    [][IF replica' = replica THEN TRUE
       ELSE IF FreshPage THEN TRUE
       ELSE /\ Replaced
            /\ UNCHANGED <<gameState, pendingState, botTimeoutRef, botProcs>>]_vars

\* The client holds the state the host renders and holds the turn in it; the
\* host has already applied a play of the client that is not yet rendered.
ClientIntentForwarded ==
    /\ replica = gameState
    /\ gameState.status = PLAYING
    /\ ClientSeat(gameState) = gameState.currentPlayerIndex
    /\ pendingState.turnCount = gameState.turnCount + 1
    /\ Len(pendingState.players[ClientSeat(gameState) + 1].hand)
           = Len(gameState.players[ClientSeat(gameState) + 1].hand) - 1

(* -------------------- C29: a play of a card not held -------------------- *)
\* The PLAY_CARD packets in the name of the turn holder that name no card, or
\* a card that is not in the hand the holder has in state s
MissingCardPlays(s) ==
    IF TurnHolder < 0 THEN {}
    ELSE {action \in RouterInputs :
             /\ action.actionType = "PLAY_CARD"
             /\ action.playerId = pendingState.players[TurnHolder + 1].id
             /\ IF action.cardId = NoCard THEN TRUE
                ELSE action.cardId \notin Range(s.players[TurnHolder + 1].hand)}

\* handleRemoteAction returns without queueing an update or starting a wait
Dropped(action) ==
    handleRemoteAction(gameState, pendingState, action)
        = {[pend |-> pendingState, cont |-> NoCont]}

\* C29: a PLAY_CARD of the turn holder that names no card, or a card that is
\* not in the holder's hand, is dropped: hands, piles, active color, turn
\* pointer, direction and turn counter stay as they are.
MissingCardDropped ==
    \A action \in MissingCardPlays(pendingState) : Dropped(action)

\* The same for a card that is not in the hand the host has rendered
MissingCardDroppedAsRendered ==
    \A action \in MissingCardPlays(gameState) : Dropped(action)

\* The turn holder has cards, and lacks cards, in the rendered hand
HolderLacksACard ==
    /\ TurnHolder >= 0
    /\ pendingState = gameState
    /\ \E action \in MissingCardPlays(gameState) : action.cardId # NoCard
    /\ ~pendingState.players[TurnHolder + 1].isBot
    /\ pendingState.players[TurnHolder + 1].id # HostId

(* ------------------------ C30: the call of uno -------------------------- *)
\* handleRemoteAction of the peer-to-peer host reaches its CALL_UNO branch,
\* the one that announces "... gritou UNO!"
Announces(ref, action) ==
    LET playerIdx == FindIndex(ref.players, action.playerId)
    IN  IF playerIdx = -1 THEN FALSE
        ELSE IF playerIdx # ref.currentPlayerIndex THEN FALSE
        ELSE IF action.actionType = "DRAW_CARD" THEN FALSE
        ELSE IF action.actionType = "PLAY_CARD" /\ action.cardId # NoCard THEN FALSE
        ELSE action.actionType = "CALL_UNO"

\* The same for handleRemoteAction of the polling host, whose turn check
\* lets a CALL_UNO through
AnnouncesPolling(ref, action) ==
    LET playerIdx == FindIndex(ref.players, action.playerId)
    IN  IF playerIdx = -1 THEN FALSE
        ELSE IF playerIdx # ref.currentPlayerIndex /\ action.actionType # "CALL_UNO" THEN FALSE
        ELSE IF action.actionType = "DRAW_CARD" THEN FALSE
        ELSE IF action.actionType = "PLAY_CARD" /\ action.cardId # NoCard THEN FALSE
        ELSE action.actionType = "CALL_UNO"

\* The CALL_UNO packets of the human players of the match being played (a
\* bot sends none: processBotTurn announces its call itself)
UnoCalls ==
    IF gameState.status # PLAYING THEN {}
    ELSE {PlayerAction(gameState.players[i].id, "CALL_UNO", NoCard, NoColor) :
             i \in {j \in 1..Len(gameState.players) : ~gameState.players[j].isBot}}

\* C30: while a match is played, a CALL_UNO of any player in the roster is
\* announced by the peer-to-peer host, whether or not that player holds the
\* turn, and it changes no hand, pile, turn pointer, direction, active color
\* or turn counter.
CallUnoExempt ==
    \A action \in UnoCalls :
        /\ Announces(gameState, action)
        /\ Routed(action) = {pendingState}

\* The half of it that is about the table: no CALL_UNO changes the match state
CallUnoChangesNothing ==
    \A action \in UnoCalls : Dropped(action)

\* What the peer-to-peer host does announce: the call of the turn holder
CallUnoOfHolder ==
    \A action \in UnoCalls :
        Announces(gameState, action)
            <=> FindIndex(gameState.players, action.playerId) = gameState.currentPlayerIndex

\* The polling host announces the call of every player in the roster
CallUnoExemptPolling ==
    \A action \in UnoCalls : AnnouncesPolling(gameState, action)

(* ------------- the polling variant: host, relay and clients ------------- *)
\* The polling host keeps the match state as the peer-to-peer host does
\* (gameState, pendingState, botTimeoutRef, botProcs) and renders, arms the
\* bot timer and ends a bot's chat in the same way; it talks to its clients
\* through the relay only, so connectedPeers and net stay empty here.
MaxPollClients == 2
MaxSends == 2
MaxUpdates == 1
PollMaxTurns == 3

\* The table size the polling host is started with
PollModes == {"1v1"}

\* The polling match is followed for PollMaxTurns turns
PollWithinTurns(s) == s.turnCount <= PollMaxTurns

PollClients == {ClientId(i) : i \in 1..MaxPollClients}

\* What the relay stores for a room
RoomData(state, chat, actions) ==
    [gameState |-> state, chatMessages |-> chat, pendingActions |-> actions]

\* api.updateGameState: the body of an UPDATE_STATE request
UpdateState(state) == RoomData(state, <<>>, <<>>)

\* api.sendAction: a SEND_ACTION request on its way to the relay
SendAction(action) == [action |-> action, stage |-> "sent", currentData |-> NoData]

JoinRequestOf(id) == PlayerAction(id, "JOIN_REQUEST", NoCard, NoColor)

\* The host may put one more UPDATE_STATE in flight
MayPush == Cardinality(updates) < MaxUpdates

\* createRoom: the lobby state with the host as its only player
RoomLobbyState == [LobbyState EXCEPT !.players = <<NewPlayer(HostId, FALSE, <<>>, TRUE)>>]

\* handleAddPlayer: the updater replaces the roster by the one computed from
\* stateRef.current
handleAddPlayer(ref, pend, id) ==
    IF id \in RosterIds(ref) THEN pend
    ELSE [pend EXCEPT !.players = Append(ref.players, NewPlayer(id, FALSE, <<>>, FALSE))]

\* handleRemoteAction of the polling host
handleRemoteActionPolling(ref, pend, action) ==
    LET playerIdx == FindIndex(ref.players, action.playerId)
        unchanged == {[pend |-> pend, cont |-> NoCont]}
    IN  IF playerIdx = -1 THEN unchanged
        ELSE IF playerIdx # ref.currentPlayerIndex /\ action.actionType # "CALL_UNO"
             THEN unchanged
        ELSE IF action.actionType = "DRAW_CARD"
             THEN {[pend |-> passTurn(d, playerIdx), cont |-> NoCont]
                   : d \in performDraw(pend, playerIdx, 1)}
        ELSE IF action.actionType = "PLAY_CARD" /\ action.cardId # NoCard
             THEN IF action.cardId \in Range(ref.players[playerIdx + 1].hand)
                  THEN performPlayCard(ref, pend, playerIdx, action.cardId, action.wildColor)
                  ELSE unchanged
        ELSE unchanged

\* The pass adding the players of JOIN_REQUESTs whatever the status
PassStepJoinsAnytime(ref, pend, action) ==
    IF action.actionType = "JOIN_REQUEST"
    THEN {handleAddPlayer(ref, pend, action.playerId)}
    ELSE {r.pend : r \in handleRemoteActionPolling(ref, pend, action)}

\* poll, HOST logic: what one pending action does to the queued state
PassStep(ref, pend, action) ==
    IF action.actionType = "JOIN_REQUEST"
    THEN IF ref.status = LOBBY THEN {handleAddPlayer(ref, pend, action.playerId)} ELSE {pend}
    ELSE {r.pend : r \in handleRemoteActionPolling(ref, pend, action)}

\* data.pendingActions.forEach(...): the whole pass, every action read
\* against the same stateRef.current
RECURSIVE PassOver(_, _, _)
PassOver(ref, pends, actions) ==
    IF actions = <<>> THEN pends
    ELSE PassOver(ref, UNION {PassStep(ref, p, Head(actions)) : p \in pends}, Tail(actions))

\* startGameHost of the polling host: the roster keeps its seats and gets
\* hands, bots fill the remaining slots
startGamePolling(ref, mode, deck) ==
    LET humans == Len(ref.players)
        neededBots == Max(0, TotalSlots(mode) - humans)
        players == [s \in 1..(humans + neededBots) |->
                       IF s <= humans
                       THEN [ref.players[s] EXCEPT !.hand = Dealt(deck, s - 1)]
                       ELSE NewPlayer(BotId(s - humans - 1), TRUE, Dealt(deck, s - 1), FALSE)]
        rest == Drop(deck, (humans + neededBots) * HandSize)
        firstCard == Head(rest)
        initialColor == IF Card(firstCard).color = "black" THEN "red" ELSE Card(firstCard).color
    IN  [status |-> PLAYING, players |-> players, currentPlayerIndex |-> 0, direction |-> 1,
         drawPile |-> Tail(rest), discardPile |-> <<firstCard>>, currentColor |-> initialColor,
         winner |-> NoPlayer, turnCount |-> 1]

\* What a client's screen lets client id submit, read from the state the
\* clients polled
ClientActions(id) ==
    LET myIndex == FindIndex(replica.players, id)
        hand == replica.players[myIndex + 1].hand
        topCard == Card(replica.discardPile[Len(replica.discardPile)])
    IN  IF replica.status # PLAYING \/ myIndex = -1 THEN {}
        ELSE {PlayerAction(id, "CALL_UNO", NoCard, NoColor)}
             \cup (IF myIndex # replica.currentPlayerIndex THEN {}
                   ELSE {PlayerAction(id, "DRAW_CARD", NoCard, NoColor)}
                        \cup {PlayerAction(id, "PLAY_CARD", c, NoColor) :
                                 c \in {x \in Range(hand) :
                                           /\ isCardValid(Card(x), topCard, replica.currentColor)
                                           /\ Card(x).color # "black"}}
                        \cup {PlayerAction(id, "PLAY_CARD", c, COLORS[1]) :
                                 c \in {x \in Range(hand) : Card(x).color = "black"}})

\* createRoom
CreateRoom ==
    /\ room = NoRoom
    /\ gameState = LobbyState
    /\ pendingState = LobbyState
    /\ gameState' = RoomLobbyState
    /\ pendingState' = RoomLobbyState
    /\ room' = UpdateState(RoomLobbyState)
    /\ UNCHANGED <<ledger, engine>> /\ UNCHANGED <<connectedPeers, botTimeoutRef, botProcs, net, replica,
                   updates, sends, polled, sendCount>>

\* joinRoom: the room exists, the JOIN_REQUEST is sent.  The model follows
\* each client through one join, and every action is sent once.
JoinRoom ==
    \E id \in PollClients :
        /\ room # NoRoom
        /\ sendCount < MaxSends
        /\ id \notin RosterIds(gameState) \cup RosterIds(pendingState)
        /\ JoinRequestOf(id) \notin ledger.sent
        /\ sends' = sends \cup {SendAction(JoinRequestOf(id))}
        /\ sendCount' = sendCount + 1
        /\ ledger' = [ledger EXCEPT !.sent = @ \cup {JoinRequestOf(id)}]
        /\ UNCHANGED engine /\ UNCHANGED <<gameState, pendingState, connectedPeers, botTimeoutRef, botProcs,
                       net, replica, room, updates, polled>>

\* client, submitAction: api.sendAction(roomCode, action)
ClientSend ==
    \E id \in PollClients :
    \E action \in ClientActions(id) :
        /\ sendCount < MaxSends
        /\ action \notin ledger.sent
        /\ sends' = sends \cup {SendAction(action)}
        /\ sendCount' = sendCount + 1
        /\ ledger' = [ledger EXCEPT !.sent = @ \cup {action}]
        /\ UNCHANGED engine /\ UNCHANGED <<gameState, pendingState, connectedPeers, botTimeoutRef, botProcs,
                       net, replica, room, updates, polled>>

\* relay, SEND_ACTION: const currentData = await kv.get(key)
RelayRead ==
    \E q \in sends :
        /\ q.stage = "sent"
        /\ room # NoRoom
        /\ sends' = (sends \ {q}) \cup {[q EXCEPT !.stage = "read", !.currentData = room]}
        /\ UNCHANGED <<ledger, engine>> /\ UNCHANGED <<gameState, pendingState, connectedPeers, botTimeoutRef, botProcs,
                       net, replica, room, updates, polled, sendCount>>

\* relay, SEND_ACTION: await kv.set(key, { ...currentData, pendingActions })
RelayWrite ==
    \E q \in sends :
        /\ q.stage = "read"
        /\ room' = [q.currentData EXCEPT !.pendingActions = Append(@, q.action)]
        /\ sends' = sends \ {q}
        /\ UNCHANGED <<ledger, engine>> /\ UNCHANGED <<gameState, pendingState, connectedPeers, botTimeoutRef, botProcs,
                       net, replica, updates, polled, sendCount>>

\* relay, UPDATE_STATE: await kv.set(key, { ...body.payload, lastUpdated })
RelayUpdate ==
    \E u \in updates :
        /\ room' = u
        /\ updates' = updates \ {u}
        /\ UNCHANGED <<ledger, engine>> /\ UNCHANGED <<gameState, pendingState, connectedPeers, botTimeoutRef, botProcs,
                       net, replica, sends, polled, sendCount>>

\* host, poll: const data = await api.getRoomState(roomCode); a poll that
\* finds no pending action changes nothing and is left out
HostPoll ==
    /\ polled = NoData
    /\ room # NoRoom
    /\ room.pendingActions # <<>>
    /\ polled' = room
    /\ UNCHANGED <<ledger, engine>> /\ UNCHANGED <<gameState, pendingState, connectedPeers, botTimeoutRef, botProcs,
                   net, replica, room, updates, sends, sendCount>>

\* host, poll after the await: the pending actions are processed and
\* stateRef.current is pushed
HostPass ==
    /\ polled # NoData
    /\ MayPush
    /\ \E s \in PassOver(gameState, {pendingState}, polled.pendingActions) :
           /\ PollWithinTurns(s)
           /\ pendingState' = s
    /\ updates' = updates \cup {UpdateState(gameState)}
    /\ polled' = NoData
    /\ ledger' = [ledger EXCEPT !.handled = @ \o polled.pendingActions]
    /\ UNCHANGED engine /\ UNCHANGED <<gameState, connectedPeers, botTimeoutRef, botProcs, net, replica,
                   room, sends, sendCount>>

\* host, startGameHost of the polling variant, with its push of newState
PollStartGame ==
    /\ Quiet
    /\ MayPush
    /\ gameState.status = LOBBY
    /\ HostId \in RosterIds(gameState)
    /\ \E mode \in PollModes, deck \in createDeck :
           /\ Len(deck) > Max(TotalSlots(mode), Len(gameState.players)) * HandSize
           /\ Commit(startGamePolling(gameState, mode, deck))
           /\ updates' = updates \cup {UpdateState(startGamePolling(gameState, mode, deck))}
    /\ UNCHANGED <<ledger, engine>> /\ UNCHANGED <<connectedPeers, botProcs, replica, room, sends, polled, sendCount>>

\* host, submitAction of the polling variant: handleRemoteAction, then
\* api.updateGameState(roomCode, stateRef.current, chatMessages)
PollHostSubmit ==
    /\ Quiet
    /\ MayPush
    /\ room # NoRoom
    /\ \E action \in HostActions :
       \E r \in handleRemoteActionPolling(gameState, pendingState, action) :
           /\ PollWithinTurns(r.pend)
           /\ Commit(r.pend)
           /\ botProcs' = Suspend(r)
    /\ updates' = updates \cup {UpdateState(gameState)}
    /\ UNCHANGED <<ledger, engine>> /\ UNCHANGED <<connectedPeers, replica, room, sends, polled, sendCount>>

\* processBotTurn of the polling variant after its wait: as on the
\* peer-to-peer host, and after a draw stateRef.current is pushed
PollProcessBotTurn ==
    \E proc \in botProcs :
        /\ proc.pc = "thinking"
        /\ room # NoRoom
        /\ IF gameState.status # PLAYING
           THEN /\ botProcs' = botProcs \ {proc}
                /\ UNCHANGED <<pendingState, updates>>
           ELSE /\ \E r \in BotMoves(proc) :
                       /\ PollWithinTurns(r.pend)
                       /\ pendingState' = r.pend
                       /\ botProcs' = (botProcs \ {proc}) \cup
                              (IF r.cont = NoCont THEN {}
                               ELSE {[pc |-> "chat", botIndex |-> proc.botIndex,
                                      hand |-> <<>>, cont |-> r.cont]})
                /\ IF findBestMove(proc.hand, Top(gameState), gameState.currentColor) = NoCard
                   THEN MayPush /\ updates' = updates \cup {UpdateState(gameState)}
                   ELSE UNCHANGED updates
        /\ UNCHANGED <<ledger, engine>> /\ UNCHANGED <<gameState, connectedPeers, botTimeoutRef, net, replica,
                       room, sends, polled, sendCount>>

\* client, poll: setGameState(data.gameState)
ClientPoll ==
    /\ room # NoRoom
    /\ sendCount > 0
    /\ replica' = room.gameState
    /\ UNCHANGED <<ledger, engine>> /\ UNCHANGED <<gameState, pendingState, connectedPeers, botTimeoutRef, botProcs, net,
                   room, updates, sends, polled, sendCount>>

PollNext ==
    \/ CreateRoom
    \/ JoinRoom
    \/ ClientSend
    \/ RelayRead
    \/ RelayWrite
    \/ RelayUpdate
    \/ HostPoll
    \/ HostPass
    \/ PollStartGame
    \/ PollHostSubmit
    \/ Render
    \/ BotTimerFires
    \/ PollProcessBotTurn
    \/ BotChatDone
    \/ ClientPoll

PollSpec == Init /\ [][PollNext]_vars

\* What the variables of the polling variant can hold
PollTypeOK ==
    /\ sendCount \in 0..MaxSends
    /\ Cardinality(updates) <= MaxUpdates
    /\ connectedPeers = <<>>
    /\ net = <<>>

(* ------------------------- C31: the seat order -------------------------- *)
\* The player ids of state s in seat order
SeatIds(s) == [i \in 1..Len(s.players) |-> s.players[i].id]

\* From s to t the match goes on with the same ids in the same seats
KeepsSeats(s, t) ==
    (s.status = PLAYING /\ t.status = PLAYING) => SeatIds(t) = SeatIds(s)

\* C31: while the status is playing, the players list of the host's match
\* state, rendered and queued, keeps the ids it had at match start in the
\* same order: no join request, closed connection, action, bot move or render
\* adds, removes or reorders a seat; on the polling host also when the
\* answer that holds a JOIN_REQUEST was fetched before the match was started.
SeatOrderFixed ==
    [][KeepsSeats(gameState, gameState') /\ KeepsSeats(pendingState, pendingState')]_vars

\* During a match of host and client a second connection has come and gone:
\* the client's connection is closed, the client's seat is still there
SeatOutlivedConnection ==
    /\ gameState.status = PLAYING
    /\ gameState.turnCount > 1
    /\ connectedPeers = <<>>
    /\ ClientSeat(gameState) = 1

\* The polling host has started the match while the answer to its GET, with
\* the JOIN_REQUEST of a client that has no seat, waits to be processed
JoinPolledAcrossStart ==
    /\ gameState.status = PLAYING
    /\ polled # NoData
    /\ \E id \in PollClients :
           /\ JoinRequestOf(id) \in Range(polled.pendingActions)
           /\ id \notin RosterIds(gameState)

(* --------------- the functions of gameLogic.ts on their own ------------- *)
MaxHand == 3

\* The hands the functions are called with: up to MaxHand different cards
RECURSIVE HandsOfLength(_)
HandsOfLength(n) ==
    IF n = 0 THEN {<<>>}
    ELSE {Append(h, c) : h \in HandsOfLength(n - 1), c \in CardIds} 

TestHands == {h \in UNION {HandsOfLength(n) : n \in 0..MaxHand} :
             \A i, j \in 1..Len(h) : i # j => h[i] # h[j]}

\* isCardValid(card, topCard, activeColor)
CallIsCardValid ==
    /\ engine = NoCall
    /\ \E card \in CardIds, topCard \in CardIds, activeColor \in Chromatic :
           engine' = [fn |-> "isCardValid", hand |-> <<>>, card |-> card, topCard |-> topCard,
                      activeColor |-> activeColor,
                      result |-> isCardValid(Card(card), Card(topCard), activeColor)]
    /\ UNCHANGED <<gameState, pendingState, connectedPeers, botTimeoutRef, botProcs, net,
                   replica, relayVars>>

\* findBestMove(hand, topCard, activeColor)
CallFindBestMove ==
    /\ engine = NoCall
    /\ \E hand \in TestHands, topCard \in CardIds, activeColor \in Chromatic :
           engine' = [fn |-> "findBestMove", hand |-> hand, card |-> NoCard,
                      topCard |-> topCard, activeColor |-> activeColor,
                      result |-> findBestMove(hand, Card(topCard), activeColor)]
    /\ UNCHANGED <<gameState, pendingState, connectedPeers, botTimeoutRef, botProcs, net,
                   replica, relayVars>>

\* pickBestColor(hand)
CallPickBestColor ==
    /\ engine = NoCall
    /\ \E hand \in TestHands :
           engine' = [fn |-> "pickBestColor", hand |-> hand, card |-> NoCard,
                      topCard |-> NoCard, activeColor |-> NoColor,
                      result |-> pickBestColor(hand)]
    /\ UNCHANGED <<gameState, pendingState, connectedPeers, botTimeoutRef, botProcs, net,
                   replica, relayVars>>

(* ---------------------- C32: the legality of a play --------------------- *)
\* The kind of a card: its numeral, or its symbol
Kind(card) == IF card.type = "number" THEN <<"numeral", card.value>> ELSE <<card.type, NoValue>>

\* C32: isCardValid returns true exactly when the card is of the wild family
\* (black), or its color is the active color, or both cards are numerals of
\* the same value, or the card is not a numeral and of the top card's kind; so
\* a wild-family card is legal on every top card and color, and every card is
\* legal on a top card of its own kind and under its own color as active color.
RuleEngine ==
    engine.fn = "isCardValid" =>
        LET card == Card(engine.card)
            topCard == Card(engine.topCard)
        IN  /\ engine.result <=>
                   \/ card.color = "black"
                   \/ card.color = engine.activeColor
                   \/ card.type = "number" /\ topCard.type = "number"
                      /\ card.value = topCard.value
                   \/ card.type # "number" /\ card.type = topCard.type
            /\ card.color = "black" => engine.result
            /\ Kind(card) = Kind(topCard) => engine.result
            /\ card.color = engine.activeColor => engine.result
            /\ engine.result \in BOOLEAN

\* A red skip has been judged legal on a blue skip while the color is blue
SymbolMatched ==
    /\ engine.fn = "isCardValid"
    /\ engine.result
    /\ Card(engine.card).type = "skip"
    /\ Card(engine.topCard).type = "skip"
    /\ Card(engine.card).color # engine.activeColor
    /\ Card(engine.card).color # Card(engine.topCard).color

(* ----------------------- C33: the bot's strategy ------------------------ *)
\* Position i of the hand holds a card that is legal on the call's top card
LegalAt(i) ==
    isCardValid(Card(engine.hand[i]), Card(engine.topCard), engine.activeColor)

\* Position i holds a legal skip, reverse or draw-two
LegalActionAt(i) ==
    LegalAt(i) /\ Card(engine.hand[i]).type \in {"skip", "reverse", "draw2"}

\* Position i holds a legal card that is not of the wild family
LegalColoredAt(i) == LegalAt(i) /\ Card(engine.hand[i]).color # "black"

\* The first position of the hand that satisfies one of the above, 0 if none
FirstLegalAction ==
    IF \E i \in 1..Len(engine.hand) : LegalActionAt(i)
    THEN CHOOSE i \in 1..Len(engine.hand) :
             LegalActionAt(i) /\ \A j \in 1..(i - 1) : ~LegalActionAt(j)
    ELSE 0

FirstLegalColored ==
    IF \E i \in 1..Len(engine.hand) : LegalColoredAt(i)
    THEN CHOOSE i \in 1..Len(engine.hand) :
             LegalColoredAt(i) /\ \A j \in 1..(i - 1) : ~LegalColoredAt(j)
    ELSE 0

\* C33: findBestMove returns none exactly when the hand has no legal card;
\* otherwise it returns a legal card of the hand: the first legal skip,
\* reverse or draw-two in hand order if there is one, else the first legal
\* card that is not wild, and a wild-family card only when no legal card of
\* another family is in the hand.
BotStrategy ==
    engine.fn = "findBestMove" =>
        LET n == Len(engine.hand)
        IN  /\ engine.result = NoCard <=> \A i \in 1..n : ~LegalAt(i)
            /\ engine.result # NoCard =>
                   /\ \E i \in 1..n : engine.hand[i] = engine.result /\ LegalAt(i)
                   /\ FirstLegalAction # 0 => engine.result = engine.hand[FirstLegalAction]
                   /\ (FirstLegalAction = 0 /\ FirstLegalColored # 0)
                          => engine.result = engine.hand[FirstLegalColored]
                   /\ Card(engine.result).color = "black" => FirstLegalColored = 0

\* A legal numeral comes first in the hand, a legal action card after it, and
\* a wild is held too: the action card is the move
ActionBeforeNumeral ==
    /\ engine.fn = "findBestMove"
    /\ Len(engine.hand) = 3
    /\ FirstLegalAction > 1
    /\ LegalAt(1)
    /\ Card(engine.hand[1]).type = "number"
    /\ \E i \in 1..3 : Card(engine.hand[i]).color = "black"
    /\ engine.result = engine.hand[FirstLegalAction]

(* ---------------------- C34: the bot's wild color ----------------------- *)
\* The number of cards of COLORS[k] in the hand of the call
CountOf(k) == CountColor(engine.hand, COLORS[k])

\* The position in COLORS of the color the call returned, 0 if it is none
ResultIndex ==
    IF \E k \in 1..Len(COLORS) : COLORS[k] = engine.result
    THEN CHOOSE k \in 1..Len(COLORS) : COLORS[k] = engine.result
    ELSE 0

\* pickBestColor returns red, blue, green or yellow, of the largest count
PicksAMaximum ==
    /\ ResultIndex # 0
    /\ \A k \in 1..Len(COLORS) : CountOf(ResultIndex) >= CountOf(k)

\* C34 as stated: pickBestColor returns one of red, blue, green, yellow (also
\* for an empty or all-wild hand), the color has the largest count of
\* non-wild cards in the hand, and among the colors tied for the largest
\* count it is the first in the order red, blue, green, yellow.
BestColorFirstOfTied ==
    engine.fn = "pickBestColor" =>
        /\ PicksAMaximum
        /\ \A k \in 1..Len(COLORS) : CountOf(k) = CountOf(ResultIndex) => ResultIndex <= k

\* C34, amended: pickBestColor returns one of red, blue, green, yellow (also
\* for an empty or all-wild hand), the color has the largest count of
\* non-wild cards in the hand, and among the colors tied for the largest
\* count it is the last in the order red, blue, green, yellow.
BestColorLastOfTied ==
    engine.fn = "pickBestColor" =>
        /\ PicksAMaximum
        /\ \A k \in 1..Len(COLORS) : CountOf(k) = CountOf(ResultIndex) => ResultIndex >= k

\* One red and one blue card with a wild: the tie between red and blue has
\* been decided
TieDecided ==
    /\ engine.fn = "pickBestColor"
    /\ Len(engine.hand) = 3
    /\ CountOf(1) = 1
    /\ CountOf(2) = 1
    /\ engine.result \in {COLORS[1], COLORS[2]}

(* ------------------------ C35: the deck of cards ------------------------ *)
POINTS == ("NUMBER" :> 5) @@ ("ACTION" :> 20) @@ ("WILD" :> 50)

\* What addCard pushes, the id apart
addCard(color, type, value, points) ==
    [color |-> color, type |-> type, value |-> value, points |-> points]

\* The cards of one color with two zeros
ColorCardsTwoZeros(color, numeralMax, copies) ==
    Repeat(addCard(color, "number", 0, POINTS["NUMBER"]), copies)
    \o Flatten([i \in 1..numeralMax |->
                   Repeat(addCard(color, "number", i, POINTS["NUMBER"]), copies)])
    \o Flatten([a \in 1..Len(ActionTypes) |->
                   Repeat(addCard(color, ActionTypes[a], NoValue, POINTS["ACTION"]), copies)])

\* COLORS.forEach(color => ...): one 0, copies of each higher numeral and of
\* each action
ColorCards(color, numeralMax, copies) ==
    <<addCard(color, "number", 0, POINTS["NUMBER"])>>
    \o Flatten([i \in 1..numeralMax |->
                   Repeat(addCard(color, "number", i, POINTS["NUMBER"]), copies)])
    \o Flatten([a \in 1..Len(ActionTypes) |->
                   Repeat(addCard(color, ActionTypes[a], NoValue, POINTS["ACTION"]), copies)])

\* The wilds: wildCopies times a wild and a wild-draw-four
WildCards(wildCopies) ==
    Flatten([i \in 1..wildCopies |->
        <<addCard("black", "wild", NoValue, POINTS["WILD"]),
          addCard("black", "wild4", NoValue, POINTS["WILD"])>>])

\* The deck before the shuffle, each card with its id (card-0, card-1, ...)
DeckOf(colors, numeralMax, copies, wildCopies) ==
    LET pushed == Flatten([c \in 1..Len(colors) |-> ColorCards(colors[c], numeralMax, copies)])
                  \o WildCards(wildCopies)
    IN  [i \in 1..Len(pushed) |->
            [id |-> i - 1, color |-> pushed[i].color, type |-> pushed[i].type,
             value |-> pushed[i].value, points |-> pushed[i].points]]

\* The deck of the program: four colors, numerals to 9, two copies, four
\* pairs of wilds
ProgramDeck == DeckOf(COLORS, 9, 2, 4)

\* createDeck()
CallCreateDeck ==
    /\ engine = NoCall
    /\ \E deck \in shuffleDeck(ProgramDeck) :
           engine' = [fn |-> "createDeck", hand |-> <<>>, card |-> NoCard, topCard |-> NoCard,
                      activeColor |-> NoColor, result |-> deck]
    /\ UNCHANGED <<gameState, pendingState, connectedPeers, botTimeoutRef, botProcs, net,
                   replica, relayVars>>

\* Each behaviour is one call of one function of gameLogic.ts
EngineNext == CallIsCardValid \/ CallFindBestMove \/ CallPickBestColor \/ CallCreateDeck

EngineSpec == Init /\ [][EngineNext]_vars

\* The number of cards of deck d with the given color, type and value
CountCards(d, color, type, value) ==
    Cardinality({i \in 1..Len(d) :
                    d[i].color = color /\ d[i].type = type /\ d[i].value = value})

\* C35: every deck createDeck returns has 108 cards with pairwise different
\* ids; each of the four colors has 25 cards, one 0, two of each numeral 1 to
\* 9 and two each of skip, reverse and draw-two; there are 4 wild and 4
\* wild-draw-four cards, all black; numerals carry 5 points, action cards 20
\* and wild-family cards 50.
DeckComposition ==
    engine.fn = "createDeck" =>
        LET d == engine.result
        IN  /\ Len(d) = 108
            /\ \A i, j \in 1..Len(d) : i # j => d[i].id # d[j].id
            /\ \A k \in 1..4 :
                   /\ Cardinality({i \in 1..Len(d) : d[i].color = COLORS[k]}) = 25
                   /\ CountCards(d, COLORS[k], "number", 0) = 1
                   /\ \A v \in 1..9 : CountCards(d, COLORS[k], "number", v) = 2
                   /\ \A t \in {"skip", "reverse", "draw2"} :
                          CountCards(d, COLORS[k], t, NoValue) = 2
            /\ CountCards(d, "black", "wild", NoValue) = 4
            /\ CountCards(d, "black", "wild4", NoValue) = 4
            /\ \A i \in 1..Len(d) :
                   /\ d[i].type \in {"wild", "wild4"} <=> d[i].color = "black"
                   /\ d[i].points = IF d[i].type = "number" THEN 5
                                    ELSE IF d[i].color = "black" THEN 50 ELSE 20

\* The deck of the model's matches is the same construction at the model's
\* bounds, ids and points apart
ModelDeckAsCreated ==
    LET d == DeckOf(DeckColors, NumeralMax, Copies, WildCopies)
    IN  /\ Len(d) = DeckSize
        /\ \A i \in 1..Len(d) :
               /\ d[i].id \in CardIds
               /\ Card(d[i].id) = Face(d[i].color, d[i].type, d[i].value)

\* A shuffled deck has been returned: its first card is not card-0
ShuffledDeckReturned ==
    /\ engine.fn = "createDeck"
    /\ engine.result[1].id # 0
    /\ engine.result[1].color = "black"

(* -------------------- C36: what the polling host pushes ----------------- *)
\* The host has nothing queued, no bot at work and no request under way, and
\* the relay holds no pending action
HostIdle ==
    /\ room # NoRoom
    /\ Quiet
    /\ botTimeoutRef = <<>>
    /\ botProcs = {}
    /\ updates = {}
    /\ sends = {}
    /\ polled = NoData
    /\ room.pendingActions = <<>>

\* The UPDATE_STATE requests a step puts in flight
Pushed == updates' \ updates

\* C36: the snapshot the polling host writes to the relay right after it has
\* processed pending client actions, after its own submitted action and after
\* a bot's draw holds the effects of those actions, the state just
\* calculated.
PushesFreshState ==
    [][\A u \in Pushed : u.gameState = pendingState']_vars

\* Its consequence: once the host is idle, the match state the relay stores
\* is the host's match state
IdleRelayHasHostState == HostIdle => room.gameState = gameState

\* The push of startGameHost and of createRoom, which hand over the new state
\* itself, is fresh
StartPushIsFresh ==
    [][(gameState.status = LOBBY /\ gameState'.status = PLAYING)
          => \A u \in Pushed : u.gameState = gameState']_vars

\* The host is idle and it is the client's turn on the host, while the relay
\* still tells the clients that it is the host's turn
ClientNeverLearnsItsTurn ==
    /\ HostIdle
    /\ gameState.status = PLAYING
    /\ gameState.currentPlayerIndex = ClientSeat(gameState)
    /\ room.gameState.currentPlayerIndex # gameState.currentPlayerIndex
    /\ replica = room.gameState

(* ------------------- C37: SEND_ACTION and UPDATE_STATE ------------------ *)
\* The SEND_ACTION handler of request q writes in this step
Writes(q) == q \in sends /\ q.stage = "read" /\ q \notin sends'

\* What the write of q does to the stored room when it only appends
OnlyAppends(before, after, q) ==
    /\ after.gameState = before.gameState
    /\ after.chatMessages = before.chatMessages
    /\ after.pendingActions = Append(before.pendingActions, q.action)

\* C37: a SEND_ACTION keeps the match state and the chat the relay stores for
\* the room as they are and only appends its action to pendingActions,
\* however it is interleaved with an UPDATE_STATE of the host on the same
\* room: its write never puts back a match state older than the one the host
\* has written.
SendActionOnlyAppends ==
    [][\A q \in sends : Writes(q) => OnlyAppends(room, room', q)]_vars

\* What the handler does keep: the room as it read it
SendActionKeepsWhatItRead ==
    [][\A q \in sends : Writes(q) => OnlyAppends(q.currentData, room', q)]_vars

\* A SEND_ACTION handler has read the room, and the room has been written
\* since: its write will put the old match state back
WriteOverNewerState ==
    \E q \in sends :
        /\ q.stage = "read"
        /\ q.currentData.gameState.status = LOBBY
        /\ room.gameState.status = PLAYING

(* -------------------- C38: the relay's action queue --------------------- *)
\* The actions the relay holds: in a SEND_ACTION request or in the room
RelayHolds ==
    {q.action : q \in sends}
        \cup (IF room = NoRoom THEN {} ELSE Range(room.pendingActions))

\* The actions the host has fetched and not yet processed
HostHolds == IF polled = NoData THEN {} ELSE Range(polled.pendingActions)

\* How many times the host has processed the action
TimesHandled(action) ==
    Cardinality({i \in 1..Len(ledger.handled) : ledger.handled[i] = action})

\* An action that was sent is on its way to the host until it is processed
NoActionErased ==
    \A action \in ledger.sent :
        TimesHandled(action) = 0 => action \in RelayHolds \cup HostHolds

\* No action is processed in two passes of the host
NoActionHandledTwice == \A action \in ledger.sent : TimesHandled(action) <= 1

\* C38: every action a client enqueues on an existing room is handed to the
\* host's router exactly once: none is erased unprocessed by an UPDATE_STATE
\* or by a concurrent SEND_ACTION, and none is processed in two host polls.
DeliveredExactlyOnce == NoActionErased /\ NoActionHandledTwice

\* An action was sent, fetched and processed by the host
ActionDelivered == \E action \in ledger.sent : TimesHandled(action) = 1

(* ------------------ C39: lobby joins in the polling host ---------------- *)
\* The ids of the JOIN_REQUESTs the host has fetched
JoinsFetched ==
    {action.playerId : action \in {a \in HostHolds : a.actionType = "JOIN_REQUEST"}}

\* A polling pass of the host: the fetched actions are processed
PassDone == polled # NoData /\ polled' = NoData

\* The ids of state s, seat by seat, are all different
DistinctIds(s) ==
    \A i, j \in 1..Len(s.players) : s.players[i].id = s.players[j].id => i = j

\* Every JOIN_REQUEST processed in the lobby seats its player
LobbyJoinsSeated ==
    [][(PassDone /\ gameState.status = LOBBY)
            => JoinsFetched \subseteq RosterIds(pendingState')]_vars

\* No player id is in the roster twice
NoIdTwice == DistinctIds(gameState) /\ DistinctIds(pendingState)

\* JOIN_REQUESTs processed while playing or after the game add nobody
LateJoinsAddNobody ==
    [][(PassDone /\ gameState.status # LOBBY)
            => RosterIds(pendingState') = RosterIds(pendingState)]_vars

\* C39: every JOIN_REQUEST processed while the host is in the lobby leaves
\* its player in the roster, several in one polling pass included; no player
\* id is in the roster twice; and a JOIN_REQUEST processed while the match is
\* playing or over adds nobody.
LobbyJoins ==
    [][/\ (PassDone /\ gameState.status = LOBBY)
            => JoinsFetched \subseteq RosterIds(pendingState')
       /\ (PassDone /\ gameState.status # LOBBY)
            => RosterIds(pendingState') = RosterIds(pendingState)
       /\ DistinctIds(gameState') /\ DistinctIds(pendingState')]_vars

\* The host has fetched two JOIN_REQUESTs at once in the lobby
TwoJoinsFetched == Cardinality(JoinsFetched) = 2 /\ gameState.status = LOBBY

\* The host has fetched a JOIN_REQUEST while the match is playing
LateJoinFetched == JoinsFetched # {} /\ gameState.status = PLAYING

(* ----------------------- C40: the winning play -------------------------- *)
\* A play has just won: the queued state goes from playing to game over
WinningPlay == pendingState.status = PLAYING /\ pendingState'.status = GAME_OVER

\* The seat of the winner named by state s, 0-based
WinnerSeat(s) == FindIndex(s.players, s.winner.id)

\* State t holds the hands, the discard pile and the active color that
\* playing card cardId with color choice wildColor from seat i makes of s
AppliedAsPlay(s, t, i, cardId, wildColor) ==
    LET p == PlayUpdater(s, i, cardId, ColorToSet(Card(cardId), wildColor))
    IN  /\ t.players = p.players
        /\ t.discardPile = p.discardPile
        /\ t.currentColor = p.currentColor

\* In the game-over state the winner's entry in the players list is empty
WinnerEntryEmpty ==
    \A s \in {gameState, pendingState} :
        s.status = GAME_OVER => s.players[WinnerSeat(s) + 1].hand = <<>>

\* C40: the game-over state produced by a winning play has the winning card
\* out of the winner's entry in the players list (that hand is empty), on top
\* of the discard pile, and its color (or the color chosen for a wild) as the
\* active color, as a play that does not win leaves them.
WinningPlayApplied ==
    [][IF WinningPlay
       THEN LET i == WinnerSeat(pendingState')
            IN  /\ pendingState'.players[i + 1].hand = <<>>
                /\ \E cardId \in Range(pendingState.players[i + 1].hand) :
                     \E wildColor \in WildChoices \cup {NoColor} :
                         AppliedAsPlay(pendingState, pendingState', i, cardId, wildColor)
       ELSE TRUE]_vars

\* The game-over state names a winner with an empty hand
WinnerRecordEmpty ==
    \A s \in {gameState, pendingState} :
        s.status = GAME_OVER => s.winner # NoPlayer /\ s.winner.hand = <<>>

\* A match has been won
MatchWon == pendingState.status = GAME_OVER

====
